---- MODULE Spec2Model ----
(***************************************************************************)
(* A model of the argocd-attach controller: two Controller instances       *)
(* (argoclusters, argonamespaces), each with a rate limiting work queue    *)
(* drained by numWorkers workers, the informer handlers that feed the      *)
(* queue, the generic Reconcile state machine with its finalizer and       *)
(* status writes, and the remote object store the writes go to.            *)
(***************************************************************************)
EXTENDS Integers, Sequences, FiniteSets, TLC

VARIABLES
  obj,       \* the store: obj[c][k] is the managed resource k of kind c
  secret,    \* secret[c][k]: the dependent resources Provision creates exist
  notif,     \* notif[c]: keys whose informer handler has yet to call Queue.Add
  Queue,     \* Queue[c]: the work queue of controller c
  failures,  \* the rate limiter's failure count per item (one limiter, main.go:731)
  wk,        \* wk[c][w]: worker w of controller c, its place in processNextWorkItem
  hist,      \* history per object: what has been invoked and recorded so far
  rl,        \* history per controller and key: the last rate limited requeue
  env,       \* the kinds in use and what each remote call answers ("any": either)
  snaps,     \* the store as observed at the end of each pass (sequential runs)
  psIn,      \* patchStatus alone: the answers of ApplyStatus, one per attempt
  psOut,     \* patchStatus alone: what the call did
  proc,      \* the context of main and, per controller, whether Run has returned
  pv         \* a capability alone: its input and what the call did

vars == <<obj, secret, notif, Queue, failures, wk, hist, rl, env,
          snaps, psIn, psOut, proc, pv>>

(***************************************************************************)
(* Program constants.                                                      *)
(***************************************************************************)
numWorkers == 2
maxRetries == 5
MaxRequeues == 10
BaseDelay == 1
MaxDelay == 60

(***************************************************************************)
(* Bounds of the model.                                                    *)
(***************************************************************************)
MaxGen == 2
MaxPasses == 2
MaxResyncs == 1
MaxBackoffs == 1

Kinds == {"argoclusters", "argonamespaces"}
Names == {"ns1/foo"}
Workers == 1..numWorkers

finalizerName(c) ==
  IF c = "argoclusters" THEN "field.vmware.com/argo-attach-cluster-cleanup"
  ELSE "field.vmware.com/argo-attach-ns-cleanup"

\* A finalizer token owned by some other controller.
OtherToken == "example.com/other"

Min(a, b) == IF a < b THEN a ELSE b

RECURSIVE Pow2(_)
Pow2(n) == IF n = 0 THEN 1 ELSE 2 * Pow2(n - 1)

Range(s) == {s[i] : i \in 1..Len(s)}

(***************************************************************************)
(* Helpers of util.go.                                                     *)
(***************************************************************************)
containsFinalizer(fin, f) == \E i \in 1..Len(fin) : fin[i] = f

RECURSIVE removeString(_, _)
removeString(slice, s) ==
  IF slice = <<>> THEN <<>>
  ELSE IF Head(slice) = s THEN removeString(Tail(slice), s)
       ELSE <<Head(slice)>> \o removeString(Tail(slice), s)

Count(fin, f) == Cardinality({i \in 1..Len(fin) : fin[i] = f})

(***************************************************************************)
(* updateGenericStatus: the state of the status written for (success, err). *)
(***************************************************************************)
\* A status function that does not look at the error.
updateGenericStatusNoErr(success, reconcileErr) ==
  IF success
    THEN [state |-> "Ready", ready |-> TRUE, message |-> "provisioned"]
    ELSE [state |-> "Pending", ready |-> FALSE, message |-> "initializing"]

\* A status function that looks at the success flag first.
updateGenericStatusSuccessFirst(success, reconcileErr) ==
  IF success
    THEN [state |-> "Ready", ready |-> TRUE, message |-> "provisioned"]
  ELSE IF reconcileErr # ""
    THEN [state |-> "Failed", ready |-> FALSE, message |-> reconcileErr]
  ELSE [state |-> "Pending", ready |-> FALSE, message |-> "initializing"]

\* The message of a Failed status is made of the error's text.
updateGenericStatus(success, reconcileErr) ==
  IF reconcileErr # ""
    THEN [state |-> "Failed", ready |-> FALSE, message |-> reconcileErr]
  ELSE IF success
    THEN [state |-> "Ready", ready |-> TRUE, message |-> "provisioned"]
  ELSE [state |-> "Pending", ready |-> FALSE, message |-> "initializing"]

(***************************************************************************)
(* patchStatus: the retry loop over ApplyStatus.  script[i] is the answer  *)
(* of the i-th attempt; the result says how many attempts were made,       *)
(* whether the status was applied and which error, if any, is returned.    *)
(***************************************************************************)
ApplyAnswers == {"ok", "notfound", "conflict", "exists", "other"}

IsConflictClass(a) == a \in {"conflict", "exists"}

\* A loop that makes one attempt more than maxRetries.
RECURSIVE patchStatusLoopOneMore(_, _)
patchStatusLoopOneMore(script, i) ==
  IF i > maxRetries
    THEN [attempts |-> i, applied |-> FALSE, err |-> "conflict"]
  ELSE LET a == script[i + 1] IN
    IF a = "ok" THEN [attempts |-> i + 1, applied |-> TRUE, err |-> ""]
    ELSE IF a = "notfound" THEN [attempts |-> i + 1, applied |-> FALSE, err |-> ""]
    ELSE IF IsConflictClass(a) THEN patchStatusLoopOneMore(script, i + 1)
    ELSE [attempts |-> i + 1, applied |-> FALSE, err |-> "other"]

\* A loop that retries on every error but NotFound.
RECURSIVE patchStatusLoopRetryAll(_, _)
patchStatusLoopRetryAll(script, i) ==
  IF i >= maxRetries
    THEN [attempts |-> i, applied |-> FALSE, err |-> "conflict"]
  ELSE LET a == script[i + 1] IN
    IF a = "ok" THEN [attempts |-> i + 1, applied |-> TRUE, err |-> ""]
    ELSE IF a = "notfound" THEN [attempts |-> i + 1, applied |-> FALSE, err |-> ""]
    ELSE patchStatusLoopRetryAll(script, i + 1)

RECURSIVE patchStatusLoop(_, _)
patchStatusLoop(script, i) ==
  IF i >= maxRetries
    THEN [attempts |-> i, applied |-> FALSE, err |-> "conflict"]
  ELSE LET a == script[i + 1] IN
    IF a = "ok" THEN [attempts |-> i + 1, applied |-> TRUE, err |-> ""]
    ELSE IF a = "notfound" THEN [attempts |-> i + 1, applied |-> FALSE, err |-> ""]
    ELSE IF IsConflictClass(a) THEN patchStatusLoop(script, i + 1)
    ELSE [attempts |-> i + 1, applied |-> FALSE, err |-> "other"]

patchStatus(script) == patchStatusLoop(script, 0)

(***************************************************************************)
(* What each remote call may answer: with env[call] = "any" it may       *)
(* succeed or fail, otherwise it answers as env[call] says.                *)
(***************************************************************************)
Outcomes(call) ==
  IF env[call] = "any" THEN {"ok", "err"} ELSE {env[call]}

\* The answers of ApplyStatus over one patchStatus call: at once, after two
\* conflicts, five conflicts in a row, after one AlreadyExists, or another error.
StatusRuns == {"ok", "retry", "exists", "conflict", "err"}

Script(run, live) ==
  LET good == IF live THEN <<"ok">> ELSE <<"notfound">> IN
  CASE run = "ok" -> good
    [] run = "retry" -> <<"conflict", "conflict">> \o good
    [] run = "exists" -> <<"exists">> \o good
    [] run = "conflict" -> [i \in 1..maxRetries |-> "conflict"]
    [] OTHER -> <<"other">>

StatusOutcomes ==
  IF env.status = "any" THEN StatusRuns ELSE {env.status}

(***************************************************************************)
(* The object store.                                                       *)
(***************************************************************************)
NoObj(life) ==
  [life |-> life, del |-> FALSE, fin |-> <<>>, gen |-> 0, status |-> ""]

Live(c, k) == obj[c][k].life = "live"

\* The informer's handlers (setupInformer): does the event enqueue the key?
AddFunc == TRUE

\* An update handler without the filter.
UpdateFuncUnfiltered(oldU, newU) == TRUE

UpdateFunc(oldU, newU) ==
  LET generationChanged == oldU.gen # newU.gen
      deletionRequested == newU.del
  IN generationChanged \/ deletionRequested

DeleteFunc == TRUE

\* A write of `new` over the live object (c, k): the store completes the
\* deletion once deletionTimestamp is set and no finalizer is left, and the
\* informer sees the change.
StoreWrite(c, k, new) ==
  LET old == obj[c][k]
      destroyed == new.del /\ new.fin = <<>>
      enqueue == IF destroyed THEN DeleteFunc ELSE UpdateFunc(old, new)
  IN /\ obj' = [obj EXCEPT ![c][k] = IF destroyed THEN NoObj("gone") ELSE new]
     /\ notif' = [notif EXCEPT ![c] = IF enqueue THEN @ \cup {k} ELSE @]

\* The Patch of metadata.finalizers: the whole list is replaced.  The store
\* refuses it for an absent object and refuses new finalizers on an object
\* that is being deleted.
PatchRefused(c, k, finalizers) ==
  \/ ~Live(c, k)
  \/ /\ obj[c][k].del
     /\ ~(Range(finalizers) \subseteq Range(obj[c][k].fin))

(***************************************************************************)
(* The work queue (client-go workqueue, rate limiting).                    *)
(***************************************************************************)
EmptyQueue ==
  [queue |-> <<>>, dirty |-> {}, processing |-> {}, waiting |-> {},
   shuttingDown |-> FALSE]

\* Add is ignored once the queue is shutting down.
QAdd(q, k) ==
  IF q.shuttingDown \/ k \in q.dirty THEN q
  ELSE IF k \in q.processing THEN [q EXCEPT !.dirty = @ \cup {k}]
  ELSE [q EXCEPT !.dirty = @ \cup {k}, !.queue = Append(@, k)]

QGet(q) ==
  [q EXCEPT !.queue = Tail(@),
            !.processing = @ \cup {Head(q.queue)},
            !.dirty = @ \ {Head(q.queue)}]

QDone(q, k) ==
  IF k \in q.dirty
    THEN [q EXCEPT !.processing = @ \ {k}, !.queue = Append(@, k)]
    ELSE [q EXCEPT !.processing = @ \ {k}]

\* AddAfter: the item waits for its delay, then is added.
QAddAfter(q, k) == IF q.shuttingDown THEN q ELSE [q EXCEPT !.waiting = @ \cup {k}]

\* ShutDown: no more adds; Get goes on handing out what is queued.
QShutDown(q) == [q EXCEPT !.shuttingDown = TRUE]

\* ItemExponentialFailureRateLimiter.When: base * 2^failures, capped.
When(k) == Min(BaseDelay * Pow2(failures[k]), MaxDelay)

NumRequeues(k) == failures[k]

(***************************************************************************)
(* Workers: processNextWorkItem, reconcileByKey and Reconcile, one action  *)
(* per queue operation or remote call.                                     *)
(***************************************************************************)
NoU == [del |-> FALSE, fin |-> <<>>, gen |-> 0]

Idle == [pc |-> "idle", item |-> "", u |-> NoU, res |-> "", log |-> <<>>]

Ev(call, arg, ok) == [call |-> call, arg |-> arg, ok |-> ok, msg |-> ""]

\* A patchStatus call with the status st.
EvStatus(st, ok) == [call |-> "status", arg |-> st.state, ok |-> ok, msg |-> st.message]

aux == <<env, snaps, psIn, psOut, proc, pv>>

\* The worker moves to pc with result res, having logged the events evs.
Move(c, w, pc, res, evs) ==
  wk' = [wk EXCEPT ![c][w] = [@ EXCEPT !.pc = pc, !.res = res, !.log = @ \o evs]]

\* A worker that calls Done as soon as Get returned, not deferred.
GetDoneEarly(c, w) ==
  /\ wk[c][w].pc = "idle"
  /\ Queue[c].queue # <<>>
  /\ Queue' = [Queue EXCEPT ![c] = QDone(QGet(@), Head(Queue[c].queue))]
  /\ wk' = [wk EXCEPT ![c][w] =
              [Idle EXCEPT !.pc = "fetch", !.item = Head(Queue[c].queue)]]
  /\ UNCHANGED <<obj, secret, notif, failures, hist, rl, aux>>

\* Queue.Get, with Done deferred to the end of the item's processing.
Get(c, w) ==
  /\ wk[c][w].pc = "idle"
  /\ Queue[c].queue # <<>>
  /\ Queue' = [Queue EXCEPT ![c] = QGet(@)]
  /\ wk' = [wk EXCEPT ![c][w] =
              [Idle EXCEPT !.pc = "fetch", !.item = Head(Queue[c].queue)]]
  /\ UNCHANGED <<obj, secret, notif, failures, hist, rl, aux>>

\* A Reconcile that removes the finalizer of a deleting object at once.
BranchSkipCleanup(c, u) ==
  IF u.del
    THEN IF containsFinalizer(u.fin, finalizerName(c)) THEN "rmfin" ELSE "classify"
    ELSE IF ~containsFinalizer(u.fin, finalizerName(c)) THEN "addfin" ELSE "provision"

\* A Reconcile that adds its finalizer without looking for it first.
BranchAlwaysAdd(c, u) ==
  IF u.del
    THEN IF containsFinalizer(u.fin, finalizerName(c)) THEN "cleanup" ELSE "classify"
    ELSE "addfin"

\* A Reconcile that cleans up every deleting object, finalizer or not.
BranchDeletingCleans(c, u) ==
  IF u.del
    THEN "cleanup"
    ELSE IF ~containsFinalizer(u.fin, finalizerName(c)) THEN "addfin" ELSE "provision"

\* A Reconcile that provisions an object that holds the finalizer even when
\* the object is being deleted.
BranchProvisionsDeleting(c, u) ==
  IF containsFinalizer(u.fin, finalizerName(c))
    THEN "provision"
    ELSE IF u.del THEN "classify" ELSE "addfin"

\* Reconcile's choice of branch from the fetched object.
Branch(c, u) ==
  IF u.del
    THEN IF containsFinalizer(u.fin, finalizerName(c)) THEN "cleanup" ELSE "classify"
    ELSE IF ~containsFinalizer(u.fin, finalizerName(c)) THEN "addfin" ELSE "provision"

\* A reconcileByKey that returns NotFound as an error like any other.
FetchResultNotFoundFails(out, live, branch) ==
  IF out = "err" THEN [pc |-> "classify", res |-> "fetch", evs |-> <<Ev("get", "", FALSE)>>]
  ELSE IF ~live
    THEN [pc |-> "classify", res |-> "fetch", evs |-> <<Ev("get", "notfound", FALSE)>>]
  ELSE [pc |-> branch, res |-> "", evs |-> <<>>]

\* What reconcileByKey does with the answer of Get: an error is returned,
\* NotFound ends the item cleanly, an object goes to Reconcile.
FetchResult(out, live, branch) ==
  IF out = "err" THEN [pc |-> "classify", res |-> "fetch", evs |-> <<Ev("get", "", FALSE)>>]
  ELSE IF ~live
    THEN [pc |-> "classify", res |-> "", evs |-> <<Ev("get", "notfound", FALSE)>>]
  ELSE [pc |-> branch, res |-> "", evs |-> <<>>]

\* A reconcileByKey that works on the object as the Add notification saw it.
FetchedFromNotification(c, k) == [del |-> FALSE, fin |-> <<>>, gen |-> 1]

\* The object Get returns for the key: the one in the store now.
Fetched(c, k) ==
  [del |-> obj[c][k].del, fin |-> obj[c][k].fin, gen |-> obj[c][k].gen]

\* reconcileByKey: fetch the object by key.
Fetch(c, w) ==
  LET k == wk[c][w].item
      u == Fetched(c, k)
  IN /\ wk[c][w].pc = "fetch"
     /\ \E out \in Outcomes("get") :
          LET r == FetchResult(out, Live(c, k), Branch(c, u)) IN
          wk' = [wk EXCEPT ![c][w] =
                   [@ EXCEPT !.pc = r.pc, !.res = r.res, !.log = @ \o r.evs,
                             !.u = IF out = "ok" /\ Live(c, k) THEN u ELSE @]]
     /\ UNCHANGED <<obj, secret, notif, Queue, failures, hist, rl, aux>>

\* A Reconcile that removes the finalizer whatever cleanupFunc returned.
AfterCleanupIgnoreErr(out) == [pc |-> "rmfin", res |-> ""]

\* Where Reconcile goes after cleanupFunc returned.
AfterCleanup(out) ==
  IF out = "ok" THEN [pc |-> "rmfin", res |-> ""]
  ELSE [pc |-> "defer", res |-> "cleanup"]

\* cleanupFunc: deletes the dependent resources; the Delete of an absent
\* resource is an error.
Cleanup(c, w) ==
  LET k == wk[c][w].item IN
  /\ wk[c][w].pc = "cleanup"
  /\ \E out \in (IF secret[c][k] THEN Outcomes("cleanup") ELSE {"notfound"}) :
       /\ secret' = [secret EXCEPT ![c][k] = IF out = "ok" THEN FALSE ELSE @]
       /\ hist' = [hist EXCEPT ![c][k].cleaned = @ \/ out = "ok"]
       /\ Move(c, w, AfterCleanup(out).pc, AfterCleanup(out).res,
               <<Ev("cleanup", "", out = "ok")>>)
  /\ UNCHANGED <<obj, notif, Queue, failures, rl, aux>>

\* A Reconcile that only logs the error of patchFinalizer and goes on.
PatchFinalizerErrLogged(c, w, updated, arg, next) ==
  LET k == wk[c][w].item IN
  \E out \in (IF PatchRefused(c, k, updated) THEN {"refused"} ELSE Outcomes("patch")) :
    /\ IF out = "ok"
         THEN StoreWrite(c, k, [obj[c][k] EXCEPT !.fin = updated])
         ELSE UNCHANGED <<obj, notif>>
    /\ Move(c, w, next, "", <<Ev("finalizers", arg, out = "ok")>>)

\* patchFinalizer from Reconcile: on success go to `next`, else to the deferred
\* status update with the error.
PatchFinalizer(c, w, updated, arg, next) ==
  LET k == wk[c][w].item IN
  \E out \in (IF PatchRefused(c, k, updated) THEN {"refused"} ELSE Outcomes("patch")) :
    /\ IF out = "ok"
         THEN /\ StoreWrite(c, k, [obj[c][k] EXCEPT !.fin = updated])
              /\ Move(c, w, next, "", <<Ev("finalizers", arg, TRUE)>>)
         ELSE /\ UNCHANGED <<obj, notif>>
              /\ Move(c, w, "defer", "finalizer", <<Ev("finalizers", arg, FALSE)>>)

\* A Reconcile that sends its own token as the whole list.
OnlyOwnFinalizer(fin, f) == <<f>>

\* updatedFinalizers of the add-finalizer branch.
AppendFinalizer(fin, f) == Append(fin, f)

RemoveFinalizer(c, w) ==
  /\ wk[c][w].pc = "rmfin"
  /\ PatchFinalizer(c, w, removeString(wk[c][w].u.fin, finalizerName(c)),
                    "remove", "classify")
  /\ UNCHANGED <<secret, Queue, failures, hist, rl, aux>>

\* A Reconcile that returns after the finalizer was added (the `return nil`
\* of the add-finalizer branch), leaving Provision to a later pass.
AddFinalizerReturns(c, w) ==
  /\ wk[c][w].pc = "addfin"
  /\ PatchFinalizer(c, w, AppendFinalizer(wk[c][w].u.fin, finalizerName(c)),
                    "add", "classify")
  /\ UNCHANGED <<secret, Queue, failures, hist, rl, aux>>

AddFinalizer(c, w) ==
  /\ wk[c][w].pc = "addfin"
  /\ PatchFinalizer(c, w, AppendFinalizer(wk[c][w].u.fin, finalizerName(c)),
                    "add", "pending")
  /\ UNCHANGED <<secret, Queue, failures, hist, rl, aux>>

\* One patchStatus call writing `state`: the store and the history after it.
\* hist.readyGen is the generation status Ready is recorded for (0: none).
WriteStatus(c, k, state, gen, r) ==
  IF r.applied
    THEN /\ StoreWrite(c, k, [obj[c][k] EXCEPT !.status = state])
         /\ hist' = [hist EXCEPT ![c][k].readyGen = IF state = "Ready" THEN gen ELSE 0]
    ELSE UNCHANGED <<obj, notif, hist>>

\* The Pending status after the finalizer was added; its error is only logged.
PatchPending(c, w) ==
  LET k == wk[c][w].item IN
  /\ wk[c][w].pc = "pending"
  /\ \E run \in StatusOutcomes :
       LET r == patchStatus(Script(run, Live(c, k))) IN
       /\ WriteStatus(c, k, updateGenericStatus(FALSE, "").state, wk[c][w].u.gen, r)
       /\ Move(c, w, "provision", "",
               <<EvStatus(updateGenericStatus(FALSE, ""), r.err = "")>>)
  /\ UNCHANGED <<secret, Queue, failures, rl, aux>>

\* provisionFunc.
Provision(c, w) ==
  LET k == wk[c][w].item IN
  /\ wk[c][w].pc = "provision"
  /\ \E out \in Outcomes("provision") :
       /\ secret' = [secret EXCEPT ![c][k] = IF out = "ok" THEN TRUE ELSE @]
       /\ hist' = [hist EXCEPT ![c][k].prov = TRUE]
       /\ IF out = "ok"
            THEN Move(c, w, "ready", "", <<Ev("provision", "", TRUE)>>)
            ELSE Move(c, w, "defer", "provision", <<Ev("provision", "", FALSE)>>)
  /\ UNCHANGED <<obj, notif, Queue, failures, rl, aux>>

\* The Ready status after a successful provision; its error is returned.
PatchReady(c, w) ==
  LET k == wk[c][w].item IN
  /\ wk[c][w].pc = "ready"
  /\ \E run \in StatusOutcomes :
       LET r == patchStatus(Script(run, Live(c, k))) IN
       /\ WriteStatus(c, k, updateGenericStatus(TRUE, "").state, wk[c][w].u.gen, r)
       /\ Move(c, w, "classify", IF r.err = "" THEN "" ELSE "status",
               <<EvStatus(updateGenericStatus(TRUE, ""), r.err = "")>>)
  /\ UNCHANGED <<secret, Queue, failures, rl, aux>>

\* A deferred update that returns the error of its own status write.
DeferReturnsStatusErr(c, w) ==
  LET k == wk[c][w].item
      res == wk[c][w].res
  IN /\ wk[c][w].pc = "defer"
     /\ \/ /\ "err" \in Outcomes("get")
           /\ Move(c, w, "classify", res, <<Ev("refetch", "", FALSE)>>)
           /\ UNCHANGED <<obj, notif, hist>>
        \/ /\ "ok" \in Outcomes("get")
           /\ ~Live(c, k)
           /\ Move(c, w, "classify", res, <<Ev("refetch", "notfound", FALSE)>>)
           /\ UNCHANGED <<obj, notif, hist>>
        \/ /\ "ok" \in Outcomes("get")
           /\ Live(c, k)
           /\ \E run \in StatusOutcomes :
                LET r == patchStatus(Script(run, TRUE)) IN
                /\ WriteStatus(c, k, updateGenericStatus(FALSE, res).state,
                               wk[c][w].u.gen, r)
                /\ Move(c, w, "classify", IF r.err = "" THEN res ELSE "status",
                        <<EvStatus(updateGenericStatus(FALSE, res), r.err = "")>>)
     /\ UNCHANGED <<secret, Queue, failures, rl, aux>>

\* The deferred status update after an error: re-fetch, then patch Failed;
\* the pass returns the original error whatever happens here.
Defer(c, w) ==
  LET k == wk[c][w].item
      res == wk[c][w].res
  IN /\ wk[c][w].pc = "defer"
     /\ \/ /\ "err" \in Outcomes("get")
           /\ Move(c, w, "classify", res, <<Ev("refetch", "", FALSE)>>)
           /\ UNCHANGED <<obj, notif, hist>>
        \/ /\ "ok" \in Outcomes("get")
           /\ ~Live(c, k)
           /\ Move(c, w, "classify", res, <<Ev("refetch", "notfound", FALSE)>>)
           /\ UNCHANGED <<obj, notif, hist>>
        \/ /\ "ok" \in Outcomes("get")
           /\ Live(c, k)
           /\ \E run \in StatusOutcomes :
                LET r == patchStatus(Script(run, TRUE)) IN
                /\ WriteStatus(c, k, updateGenericStatus(FALSE, res).state,
                               wk[c][w].u.gen, r)
                /\ Move(c, w, "classify", res,
                        <<EvStatus(updateGenericStatus(FALSE, res), r.err = "")>>)
     /\ UNCHANGED <<secret, Queue, failures, rl, aux>>

\* A ceiling that lets one more failure through.
RetryAllowedInclusive(k) == NumRequeues(k) <= MaxRequeues

\* The retry ceiling of processNextWorkItem.
RetryAllowed(k) == NumRequeues(k) < MaxRequeues

\* The end of processNextWorkItem: requeue with backoff or forget.
Classify(c, w) ==
  LET k == wk[c][w].item IN
  /\ wk[c][w].pc = "classify"
  /\ IF wk[c][w].res # "" /\ RetryAllowed(k)
       THEN /\ failures' = [failures EXCEPT ![k] = @ + 1]
            /\ Queue' = [Queue EXCEPT ![c] = QAddAfter(@, k)]
            /\ rl' = [rl EXCEPT ![c][k] = [n |-> @.n + 1, delay |-> When(k)]]
            /\ Move(c, w, "done", wk[c][w].res, <<Ev("AddRateLimited", "", TRUE)>>)
       ELSE /\ failures' = [failures EXCEPT ![k] = 0]
            /\ rl' = [rl EXCEPT ![c][k] = [n |-> 0, delay |-> 0]]
            /\ Move(c, w, "done", wk[c][w].res, <<Ev("Forget", "", TRUE)>>)
            /\ UNCHANGED Queue
  /\ UNCHANGED <<obj, secret, notif, hist, aux>>

\* A Done that drops what was added while the item was in flight.
DoneItemDropsAdds(c, w) ==
  /\ wk[c][w].pc = "done"
  /\ Queue' = [Queue EXCEPT ![c].processing = @ \ {wk[c][w].item},
                            ![c].dirty = @ \ {wk[c][w].item}]
  /\ wk' = [wk EXCEPT ![c][w] = Idle]
  /\ UNCHANGED <<obj, secret, notif, failures, hist, rl>>

\* The deferred Queue.Done.
DoneItem(c, w) ==
  /\ wk[c][w].pc = "done"
  /\ Queue' = [Queue EXCEPT ![c] = QDone(@, wk[c][w].item)]
  /\ wk' = [wk EXCEPT ![c][w] = Idle]
  /\ UNCHANGED <<obj, secret, notif, failures, hist, rl>>

Done(c, w) == DoneItem(c, w) /\ UNCHANGED aux

(***************************************************************************)
(* The environment: users of the store, the informer and the clock.        *)
(***************************************************************************)
\* An object is created, with or without a finalizer of another controller.
Create(c, k) ==
  /\ c \in env.kinds
  /\ obj[c][k].life = "none"
  /\ \E fin \in (IF env.others THEN {<<>>, <<OtherToken>>} ELSE {<<>>}) :
       obj' = [obj EXCEPT ![c][k] =
                 [life |-> "live", del |-> FALSE, fin |-> fin, gen |-> 1, status |-> ""]]
  /\ notif' = [notif EXCEPT ![c] = IF AddFunc THEN @ \cup {k} ELSE @]
  /\ UNCHANGED <<secret, Queue, failures, wk, hist, rl, aux>>

\* The spec of an object is changed: its generation grows.
UpdateSpec(c, k) ==
  /\ Live(c, k)
  /\ obj[c][k].gen < MaxGen
  /\ StoreWrite(c, k, [obj[c][k] EXCEPT !.gen = @ + 1])
  /\ UNCHANGED <<secret, Queue, failures, wk, hist, rl, aux>>

\* Deletion of an object is requested: its deletionTimestamp is set.
RequestDelete(c, k) ==
  /\ Live(c, k)
  /\ ~obj[c][k].del
  /\ StoreWrite(c, k, [obj[c][k] EXCEPT !.del = TRUE])
  /\ UNCHANGED <<secret, Queue, failures, wk, hist, rl, aux>>

\* The periodic resync: an update event (old = new) for every known object.
ResyncEvents(c) ==
  /\ \E k \in Names : Live(c, k)
  /\ notif' = [notif EXCEPT ![c] =
                 @ \cup {k \in Names : Live(c, k) /\ UpdateFunc(obj[c][k], obj[c][k])}]

Resync(c) ==
  /\ ResyncEvents(c)
  /\ UNCHANGED <<obj, secret, Queue, failures, wk, hist, rl, aux>>

\* A handler that appends the key to the queue without the queue's dedup.
DeliverAppends(c, k) ==
  /\ k \in notif[c]
  /\ notif' = [notif EXCEPT ![c] = @ \ {k}]
  /\ Queue' = [Queue EXCEPT ![c].queue = Append(@, k), ![c].dirty = @ \cup {k}]
  /\ UNCHANGED <<obj, secret, failures, wk, hist, rl, aux>>

\* A handler runs: Queue.Add(key).
Deliver(c, k) ==
  /\ k \in notif[c]
  /\ notif' = [notif EXCEPT ![c] = @ \ {k}]
  /\ Queue' = [Queue EXCEPT ![c] = QAdd(@, k)]
  /\ UNCHANGED <<obj, secret, failures, wk, hist, rl, aux>>

\* The delay of a rate limited requeue has passed: the key is added.
DelayElapsed(c, k) ==
  /\ k \in Queue[c].waiting
  /\ Queue' = [Queue EXCEPT ![c] = QAdd([@ EXCEPT !.waiting = @ \ {k}], k)]
  /\ UNCHANGED <<obj, secret, notif, failures, wk, hist, rl, aux>>

(***************************************************************************)
(* The specification: one controller in use, any interleaving of its       *)
(* workers with the environment, every remote call free to fail.           *)
(***************************************************************************)
AnyEnv(kinds) ==
  [kinds |-> kinds, others |-> TRUE, get |-> "any", cleanup |-> "any", patch |-> "any",
   provision |-> "any", status |-> "any"]

NoHist == [prov |-> FALSE, cleaned |-> FALSE, readyGen |-> 0]

NoPs == [attempts |-> 0, applied |-> FALSE, err |-> ""]

\* No capability has been called on its own.
NoPv == [in |-> "none", out |-> [err |-> "", panic |-> FALSE, written |-> {}],
         done |-> FALSE]

\* main before cancellation: the context is live and no Run has returned.
NoRun == [ctx |-> "live", returned |-> [c \in Kinds |-> FALSE], resyncs |-> 0]

InitBase ==
  /\ obj = [c \in Kinds |-> [k \in Names |-> NoObj("none")]]
  /\ secret = [c \in Kinds |-> [k \in Names |-> FALSE]]
  /\ notif = [c \in Kinds |-> {}]
  /\ Queue = [c \in Kinds |-> EmptyQueue]
  /\ failures = [k \in Names |-> 0]
  /\ wk = [c \in Kinds |-> [w \in Workers |-> Idle]]
  /\ hist = [c \in Kinds |-> [k \in Names |-> NoHist]]
  /\ rl = [c \in Kinds |-> [k \in Names |-> [n |-> 0, delay |-> 0]]]
  /\ snaps = <<>>
  /\ psOut = NoPs
  /\ proc = NoRun

InitStore == InitBase /\ pv = NoPv

InitCore == InitStore /\ psIn = <<>>

Init ==
  /\ InitCore
  /\ \E c \in Kinds : env = AnyEnv({c})

Work(c, w) ==
  \/ Get(c, w)
  \/ Fetch(c, w)
  \/ Cleanup(c, w)
  \/ RemoveFinalizer(c, w)
  \/ AddFinalizer(c, w)
  \/ PatchPending(c, w)
  \/ Provision(c, w)
  \/ PatchReady(c, w)
  \/ Defer(c, w)
  \/ Classify(c, w)

Environment(c, k) ==
  \/ Create(c, k)
  \/ UpdateSpec(c, k)
  \/ RequestDelete(c, k)
  \/ Deliver(c, k)
  \/ DelayElapsed(c, k)

Next ==
  \/ \E c \in Kinds, w \in Workers : Work(c, w) \/ Done(c, w)
  \/ \E c \in Kinds, k \in Names : Environment(c, k)
  \/ \E c \in Kinds : Resync(c)

Spec == Init /\ [][Next]_vars

(***************************************************************************)
(* Both controllers in use, on objects of the same namespace and name.     *)
(* The objects are created and never deleted; only Provision fails.        *)
(***************************************************************************)
InitShared ==
  /\ InitCore
  /\ env = [AnyEnv(Kinds) EXCEPT !.others = FALSE, !.get = "ok", !.patch = "ok",
                                 !.status = "ok"]

WorkShared(c, w) ==
  \/ Get(c, w)
  \/ Fetch(c, w)
  \/ AddFinalizer(c, w)
  \/ PatchPending(c, w)
  \/ Provision(c, w)
  \/ PatchReady(c, w)
  \/ Defer(c, w)
  \/ Classify(c, w)
  \/ Done(c, w)

NextShared ==
  \/ \E c \in Kinds, w \in Workers : WorkShared(c, w)
  \/ \E c \in Kinds, k \in Names : Create(c, k) \/ Deliver(c, k) \/ DelayElapsed(c, k)

SpecShared == InitShared /\ [][NextShared]_vars

\* The same, with the specs of the objects changing; only the delays of the
\* first MaxBackoffs + 1 failures in a row are waited out.
DelayElapsedSoon(c, k) == failures[k] <= MaxBackoffs /\ DelayElapsed(c, k)

NextSharedUpdates ==
  \/ \E c \in Kinds, w \in Workers : WorkShared(c, w)
  \/ \E c \in Kinds, k \in Names :
       Create(c, k) \/ UpdateSpec(c, k) \/ Deliver(c, k) \/ DelayElapsedSoon(c, k)

SpecSharedUpdates == InitShared /\ [][NextSharedUpdates]_vars

(***************************************************************************)
(* Reconcile run pass after pass on one object, with nothing else changing *)
(* the store and every remote call answering the same way each time.       *)
(* snaps[1] is the object before the first pass, snaps[n + 1] the object   *)
(* after the n-th pass.                                                    *)
(***************************************************************************)
FinLists(c) ==
  {<<>>, <<finalizerName(c)>>, <<OtherToken>>,
   <<OtherToken, finalizerName(c)>>, <<finalizerName(c), OtherToken>>}

ObjStates(c) ==
  {o \in [life : {"live"}, del : BOOLEAN, fin : FinLists(c), gen : {1},
          status : {"", "Pending", "Ready", "Failed"}] :
     ~(o.del /\ o.fin = <<>>)}

FixedEnvs(c) ==
  [kinds : {{c}}, others : {TRUE}, get : {"ok", "err"}, cleanup : {"ok", "err"},
   patch : {"ok", "err"}, provision : {"ok", "err"}, status : StatusRuns]

View(c, k) ==
  [life |-> obj[c][k].life, del |-> obj[c][k].del, fin |-> obj[c][k].fin,
   status |-> obj[c][k].status, secret |-> secret[c][k]]

InitPass ==
  \E c \in Kinds, k \in Names :
    /\ env \in FixedEnvs(c)
    /\ \E o \in ObjStates(c) :
         /\ obj = [d \in Kinds |-> [j \in Names |->
                     IF d = c /\ j = k THEN o ELSE NoObj("none")]]
         /\ hist = [d \in Kinds |-> [j \in Names |->
                     IF d = c /\ j = k /\ o.status = "Ready"
                       THEN [NoHist EXCEPT !.readyGen = o.gen] ELSE NoHist]]
    /\ secret \in [Kinds -> [Names -> BOOLEAN]]
    /\ \A d \in Kinds, j \in Names : secret[d][j] => d = c /\ j = k
    /\ notif = [d \in Kinds |-> {}]
    /\ Queue = [d \in Kinds |-> IF d = c THEN QAdd(EmptyQueue, k) ELSE EmptyQueue]
    /\ failures = [j \in Names |-> 0]
    /\ wk = [d \in Kinds |-> [w \in Workers |-> Idle]]
    /\ rl = [d \in Kinds |-> [j \in Names |-> [n |-> 0, delay |-> 0]]]
    /\ snaps = <<View(c, k)>>
    /\ psIn = <<>>
    /\ psOut = NoPs
    /\ proc = NoRun
    /\ pv = NoPv

\* The end of a pass: Done, and the store is observed.
PassDone(c, w) ==
  /\ DoneItem(c, w)
  /\ snaps' = IF Len(snaps) <= MaxPasses
                THEN Append(snaps, View(c, wk[c][w].item)) ELSE snaps
  /\ UNCHANGED <<env, psIn, psOut, proc, pv>>

\* Reconcile is asked for again once the previous pass is over, with no
\* change to the object.
Again(c, k) ==
  /\ c \in env.kinds
  /\ Len(snaps) <= MaxPasses
  /\ notif[c] = {}
  /\ Queue[c] = EmptyQueue
  /\ \A w \in Workers : wk[c][w].pc = "idle"
  /\ Queue' = [Queue EXCEPT ![c] = QAdd(@, k)]
  /\ UNCHANGED <<obj, secret, notif, failures, wk, hist, rl, aux>>

\* A pass starts, unless MaxPasses passes were observed already.
PassGet(c, w) ==
  /\ Len(snaps) <= MaxPasses
  /\ Get(c, w)

WorkPass(c, w) ==
  \/ PassGet(c, w)
  \/ Fetch(c, w)
  \/ Cleanup(c, w)
  \/ RemoveFinalizer(c, w)
  \/ AddFinalizer(c, w)
  \/ PatchPending(c, w)
  \/ Provision(c, w)
  \/ PatchReady(c, w)
  \/ Defer(c, w)
  \/ Classify(c, w)
  \/ PassDone(c, w)

NextPass ==
  \/ \E c \in Kinds, w \in Workers : WorkPass(c, w)
  \/ \E c \in Kinds, k \in Names : Again(c, k) \/ Deliver(c, k) \/ DelayElapsed(c, k)

SpecPass == InitPass /\ [][NextPass]_vars

(***************************************************************************)
(* patchStatus alone, on every sequence of ApplyStatus answers.            *)
(***************************************************************************)
InitPatch ==
  /\ InitStore
  /\ env = AnyEnv({})
  /\ psIn \in [1..(maxRetries + 1) -> ApplyAnswers]

RunPatch ==
  /\ psOut = NoPs
  /\ psOut' = patchStatus(psIn)
  /\ UNCHANGED <<obj, secret, notif, Queue, failures, wk, hist, rl, env, snaps, psIn, proc, pv>>

NextPatch == RunPatch

SpecPatch == InitPatch /\ [][NextPatch]_vars

(***************************************************************************)
(* Cancellation: the context of main is cancelled, each Run shuts its      *)
(* queue down (deferred) and returns, and a worker leaves its loop when    *)
(* Get reports the shutdown.                                               *)
(***************************************************************************)
Cancel ==
  /\ proc.ctx = "live"
  /\ proc' = [proc EXCEPT !.ctx = "cancelled"]
  /\ UNCHANGED <<obj, secret, notif, Queue, failures, wk, hist, rl, env, snaps, psIn, psOut, pv>>

\* Run after <-ctx.Done(): the deferred Queue.ShutDown.
RunShutDown(c) ==
  /\ c \in env.kinds
  /\ proc.ctx = "cancelled"
  /\ ~Queue[c].shuttingDown
  /\ Queue' = [Queue EXCEPT ![c] = QShutDown(@)]
  /\ UNCHANGED <<obj, secret, notif, failures, wk, hist, rl, aux>>

\* Run returns: ShutDown does not wait for the workers.
RunReturn(c) ==
  /\ Queue[c].shuttingDown
  /\ ~proc.returned[c]
  /\ proc' = [proc EXCEPT !.returned[c] = TRUE]
  /\ UNCHANGED <<obj, secret, notif, Queue, failures, wk, hist, rl, env, snaps, psIn, psOut, pv>>

\* A worker that leaves its loop as soon as the queue is shut down, whatever
\* is still queued.
WorkerExitEarly(c, w) ==
  /\ wk[c][w].pc = "idle"
  /\ Queue[c].shuttingDown
  /\ wk' = [wk EXCEPT ![c][w].pc = "stopped"]
  /\ UNCHANGED <<obj, secret, notif, Queue, failures, hist, rl, aux>>

\* Get reports the shutdown once nothing is queued: processNextWorkItem
\* returns false and runWorker ends.
WorkerExit(c, w) ==
  /\ wk[c][w].pc = "idle"
  /\ Queue[c].shuttingDown
  /\ Queue[c].queue = <<>>
  /\ wk' = [wk EXCEPT ![c][w].pc = "stopped"]
  /\ UNCHANGED <<obj, secret, notif, Queue, failures, hist, rl, aux>>

\* One controller; the store answers reads and writes, Provision and
\* Cleanup may fail.
InitRun ==
  /\ InitCore
  /\ env = [AnyEnv({"argoclusters"}) EXCEPT !.others = FALSE, !.get = "ok",
                                           !.patch = "ok", !.status = "ok"]

NextRun ==
  \/ \E c \in Kinds, w \in Workers : Work(c, w) \/ Done(c, w) \/ WorkerExit(c, w)
  \/ \E c \in Kinds, k \in Names : Environment(c, k)
  \/ \E c \in Kinds : RunShutDown(c) \/ RunReturn(c)
  \/ Cancel

SpecRun == InitRun /\ [][NextRun]_vars


(***************************************************************************)
(* The capabilities of the two kinds, each as a function of the object it  *)
(* is given and of the remote call that fails, if one does.  The result    *)
(* says which error is returned, whether the call panicked, and which      *)
(* resources it had written by then.                                       *)
(***************************************************************************)
\* The --blocked-ns list the process was started with.
Blocked == {"blocked"}

\* The namespaces each controller hands to its provisionFunc.
ControllerNamespaces(c) == IF c = "argoclusters" THEN Blocked ELSE {}

Result(err, panic, written) == [err |-> err, panic |-> panic, written |-> written]

\* The Argo cluster secret in the object's spec.argoNamespace.
ArgoSecret(in) == [res |-> "secret", ns |-> in.argoNamespace]

Own(res) == [res |-> res, ns |-> "object"]

\* applySecret: the labels map is written to before the Apply.
applySecret(in, written) ==
  IF ~in.hasLabels THEN Result("", TRUE, written)
  ELSE IF in.fail = "secret" THEN Result("apply secret", FALSE, written)
  ELSE Result("", FALSE, written \cup {ArgoSecret(in)})

applyArgoCluster(in, namespaces) ==
  IF ~in.convertible THEN Result("conversion", FALSE, {})
  ELSE IF ~in.hasSpec THEN Result("", TRUE, {})
  ELSE IF in.argoNamespace \in namespaces THEN Result("blocked", FALSE, {})
  ELSE IF in.fail = "kubeconfig" THEN Result("kubeconfig", FALSE, {})
  ELSE IF ~in.configEntry THEN Result("", TRUE, {})
  ELSE LET r == applySecret(in, {}) IN
       IF r.err # "" THEN Result("apply secret", FALSE, r.written) ELSE r

\* getSAToken: the token secret is applied, then read; a failed re-read in
\* the wait leaves a nil secret that the next inspection dereferences.
getSAToken(in, written) ==
  IF in.fail = "getsa" THEN Result("get service account", FALSE, written)
  ELSE IF in.fail = "token" THEN Result("apply token", FALSE, written)
  ELSE IF in.fail = "readtoken" THEN Result("token", FALSE, written \cup {Own("token")})
  ELSE IF in.fail = "reread" THEN Result("", TRUE, written \cup {Own("token")})
  ELSE Result("", FALSE, written \cup {Own("token")})

createArgoSvcAccount(in) ==
  IF in.fail = "sa" THEN Result("apply service account", FALSE, {})
  ELSE IF in.fail = "rb" THEN Result("apply role binding", FALSE, {Own("sa")})
  ELSE getSAToken(in, {Own("sa"), Own("rb")})

applyArgoNamespace(in, namespaces) ==
  IF ~in.convertible THEN Result("conversion", FALSE, {})
  ELSE IF ~in.hasSpec THEN Result("", TRUE, {})
  ELSE LET t == IF in.serviceAccount = "" THEN createArgoSvcAccount(in)
                ELSE getSAToken(in, {})
       IN IF t.err # "" THEN t
          ELSE LET r == applySecret(in, t.written) IN
               IF r.err # "" THEN Result("apply secret", FALSE, r.written) ELSE r

\* The provisionFunc of controller c, called as Reconcile calls it.
provisionFunc(c, in) ==
  IF c = "argoclusters" THEN applyArgoCluster(in, ControllerNamespaces(c))
  ELSE applyArgoNamespace(in, ControllerNamespaces(c))

Fails ==
  {"none", "kubeconfig", "sa", "rb", "getsa", "token", "readtoken", "reread", "secret"}

ProvisionInputs ==
  [kind : Kinds, convertible : BOOLEAN, hasSpec : BOOLEAN, hasLabels : BOOLEAN,
   configEntry : BOOLEAN, argoNamespace : {"argocd"} \cup Blocked,
   serviceAccount : {"", "user-sa"}, fail : Fails]

InitProvision ==
  /\ InitBase
  /\ psIn = <<>>
  /\ env = AnyEnv({})
  /\ \E in \in ProvisionInputs : pv = [NoPv EXCEPT !.in = in]

RunProvision ==
  /\ ~pv.done
  /\ pv' = [pv EXCEPT !.out = provisionFunc(pv.in.kind, pv.in), !.done = TRUE]
  /\ UNCHANGED <<obj, secret, notif, Queue, failures, wk, hist, rl, env, snaps, psIn,
                 psOut, proc>>

NextProvision == RunProvision

SpecProvision == InitProvision /\ [][NextProvision]_vars


(***************************************************************************)
(* The periodic resync, counted: one controller, an object that may be     *)
(* deleted, Provision and Cleanup free to fail up to the retry ceiling.    *)
(***************************************************************************)
ResyncCounted(c) ==
  /\ c \in env.kinds
  /\ proc.resyncs < MaxResyncs
  /\ ResyncEvents(c)
  /\ proc' = [proc EXCEPT !.resyncs = @ + 1]
  /\ UNCHANGED <<obj, secret, Queue, failures, wk, hist, rl, env, snaps, psIn, psOut, pv>>

InitResync ==
  /\ InitCore
  /\ env = [AnyEnv({"argoclusters"}) EXCEPT !.others = FALSE, !.get = "ok",
                                           !.patch = "ok", !.status = "ok"]

NextResync ==
  \/ \E c \in Kinds, w \in Workers : Work(c, w) \/ Done(c, w)
  \/ \E c \in Kinds, k \in Names :
       Create(c, k) \/ RequestDelete(c, k) \/ Deliver(c, k) \/ DelayElapsed(c, k)
  \/ \E c \in Kinds : ResyncCounted(c)

SpecResync == InitResync /\ [][NextResync]_vars


(***************************************************************************)
(* Another writer of metadata.finalizers: one controller whose calls       *)
(* succeed, and a second client that adds or removes its own token.        *)
(***************************************************************************)
OtherWriter(c, k) ==
  /\ c \in env.kinds
  /\ Live(c, k)
  /\ \E fin \in {Append(obj[c][k].fin, OtherToken), removeString(obj[c][k].fin, OtherToken)} :
       /\ fin # obj[c][k].fin
       /\ Len(fin) <= 2
       /\ ~PatchRefused(c, k, fin)
       /\ StoreWrite(c, k, [obj[c][k] EXCEPT !.fin = fin])
  /\ UNCHANGED <<secret, Queue, failures, wk, hist, rl, aux>>

InitWriters ==
  /\ InitCore
  /\ \E c \in Kinds :
       env = [AnyEnv({c}) EXCEPT !.get = "ok", !.cleanup = "ok", !.patch = "ok",
                                 !.provision = "ok", !.status = "ok"]

NextWriters ==
  \/ \E c \in Kinds, w \in Workers : Work(c, w) \/ Done(c, w)
  \/ \E c \in Kinds, k \in Names :
       \/ Create(c, k) \/ UpdateSpec(c, k) \/ RequestDelete(c, k)
       \/ Deliver(c, k) \/ DelayElapsed(c, k) \/ OtherWriter(c, k)

SpecWriters == InitWriters /\ [][NextWriters]_vars


(***************************************************************************)
(* A worker whose Provision panics: the deferred calls run (Reconcile's    *)
(* status update sees no error, processNextWorkItem's Queue.Done is        *)
(* called) and, nothing recovering, the process ends.                      *)
(***************************************************************************)
ProvisionPanics(c, w) ==
  LET k == wk[c][w].item IN
  /\ wk[c][w].pc = "provision"
  /\ \E in \in ProvisionInputs : in.kind = c /\ provisionFunc(c, in).panic
  /\ Queue' = [Queue EXCEPT ![c] = QDone(@, k)]
  /\ wk' = [d \in Kinds |-> [v \in Workers |->
              IF d = c /\ v = w
                THEN [wk[c][w] EXCEPT !.pc = "crashed",
                                      !.log = Append(@, Ev("provision", "panic", FALSE))]
                ELSE [wk[d][v] EXCEPT !.pc = "crashed"]]]
  /\ proc' = [proc EXCEPT !.ctx = "crashed"]
  /\ UNCHANGED <<obj, secret, notif, failures, hist, rl, env, snaps, psIn, psOut, pv>>

\* The handlers and the delaying queue run while the process does.
DeliverAlive(c, k) == proc.ctx # "crashed" /\ Deliver(c, k)

DelayElapsedAlive(c, k) == proc.ctx # "crashed" /\ DelayElapsed(c, k)

InitPanic ==
  /\ InitCore
  /\ \E c \in Kinds :
       env = [AnyEnv({c}) EXCEPT !.others = FALSE, !.get = "ok", !.patch = "ok",
                                 !.status = "ok"]

NextPanic ==
  \/ \E c \in Kinds, w \in Workers : Work(c, w) \/ Done(c, w) \/ ProvisionPanics(c, w)
  \/ \E c \in Kinds, k \in Names :
       \/ Create(c, k) \/ UpdateSpec(c, k) \/ RequestDelete(c, k)
       \/ DeliverAlive(c, k) \/ DelayElapsedAlive(c, k)

SpecPanic == InitPanic /\ [][NextPanic]_vars


(***************************************************************************)
(* Fair scheduling: every worker goroutine that can take a step eventually *)
(* takes one, every handler eventually runs, every delay eventually        *)
(* elapses.  One controller; Provision and Cleanup may fail.               *)
(***************************************************************************)
NextFair ==
  \/ \E c \in Kinds, w \in Workers : Work(c, w) \/ Done(c, w)
  \/ \E c \in Kinds, k \in Names : Environment(c, k)

Fairness ==
  /\ \A c \in Kinds, w \in Workers : WF_vars(Work(c, w) \/ Done(c, w))
  /\ \A c \in Kinds, k \in Names : WF_vars(Deliver(c, k)) /\ WF_vars(DelayElapsed(c, k))

SpecFair == InitRun /\ [][NextFair]_vars /\ Fairness


\* Cancellation under fair scheduling.
FairnessRun ==
  /\ Fairness
  /\ \A c \in Kinds, w \in Workers : WF_vars(WorkerExit(c, w))

SpecRunFair == InitRun /\ [][NextRun]_vars /\ FairnessRun


\* Fair scheduling with a store whose calls all succeed: only Provision may
\* fail, and a Delete of what is absent.
InitStoreOk ==
  /\ InitCore
  /\ \E c \in Kinds :
       env = [AnyEnv({c}) EXCEPT !.others = FALSE, !.get = "ok", !.patch = "ok",
                                 !.status = "ok", !.cleanup = "ok"]

SpecFairStoreOk == InitStoreOk /\ [][NextFair]_vars /\ Fairness


\* The whole controller with the periodic resync under fair scheduling, with
\* store calls that succeed; a Provision that is invoked again and again eventually succeeds.
ProvisionSucceeds(c, w) == Provision(c, w) /\ wk'[c][w].pc = "ready"

NextConverge ==
  \/ \E c \in Kinds, w \in Workers : Work(c, w) \/ Done(c, w)
  \/ \E c \in Kinds, k \in Names :
       \/ Create(c, k) \/ UpdateSpec(c, k) \/ RequestDelete(c, k)
       \/ Deliver(c, k) \/ DelayElapsed(c, k)
  \/ \E c \in Kinds : Resync(c)

FairnessConverge ==
  /\ Fairness
  /\ \A c \in Kinds : WF_vars(Resync(c))
  /\ \A c \in Kinds, w \in Workers : SF_vars(ProvisionSucceeds(c, w))

SpecConverge == InitStoreOk /\ [][NextConverge]_vars /\ FairnessConverge


(***************************************************************************)
(* Reconcile with the provisionFunc of its controller run on the object    *)
(* itself: the error the capability returns is the error of the pass.      *)
(* The object of the run is one on which the capability does not panic,    *)
(* and no remote call of the capability fails.                             *)
(***************************************************************************)
ProvisionObject(c, w) ==
  LET k == wk[c][w].item
      r == provisionFunc(c, pv.in)
  IN /\ wk[c][w].pc = "provision"
     /\ ~r.panic
     /\ secret' = [secret EXCEPT ![c][k] = IF ArgoSecret(pv.in) \in r.written THEN TRUE ELSE @]
     /\ hist' = [hist EXCEPT ![c][k].prov = TRUE]
     /\ IF r.err = ""
          THEN Move(c, w, "ready", "", <<Ev("provision", "", TRUE)>>)
          ELSE Move(c, w, "defer", "provision", <<Ev("provision", r.err, FALSE)>>)
     /\ UNCHANGED <<obj, notif, Queue, failures, rl, aux>>

WorkObject(c, w) ==
  \/ Get(c, w)
  \/ Fetch(c, w)
  \/ Cleanup(c, w)
  \/ RemoveFinalizer(c, w)
  \/ AddFinalizer(c, w)
  \/ PatchPending(c, w)
  \/ ProvisionObject(c, w)
  \/ PatchReady(c, w)
  \/ Defer(c, w)
  \/ Classify(c, w)

InitObject ==
  /\ InitBase
  /\ psIn = <<>>
  /\ \E c \in Kinds :
       /\ env = [AnyEnv({c}) EXCEPT !.others = FALSE, !.get = "ok", !.patch = "ok",
                                    !.status = "ok", !.cleanup = "ok"]
       /\ \E in \in ProvisionInputs :
            /\ in.kind = c
            /\ in.fail = "none"
            /\ ~provisionFunc(c, in).panic
            /\ pv = [NoPv EXCEPT !.in = in]

NextObject ==
  \/ \E c \in Kinds, w \in Workers : WorkObject(c, w) \/ Done(c, w)
  \/ \E c \in Kinds, k \in Names : Environment(c, k)

SpecObject == InitObject /\ [][NextObject]_vars


(***************************************************************************)
(* getSAToken step by step: the service account is read, the token secret  *)
(* is applied and read, and the wait inspects what was read, sleeps and    *)
(* reads again.  The token controller fills in an empty token secret at    *)
(* any time.  pv holds the call: its saName, the token secrets of the      *)
(* namespace, the secret the loop holds, and what is returned.             *)
(***************************************************************************)
tokenAttempts == 10

SANames == {"argo-attach-sa", "user-sa"}

secretName(saName) == saName \o "-token"

TokenSecrets == {secretName(n) : n \in SANames}

\* What a failed Get leaves in tokenSecert.
NilSecret == [name |-> "nil", data |-> ""]

exceptPv ==
  <<obj, secret, notif, Queue, failures, wk, hist, rl, env, snaps, psIn, psOut, proc>>

TokenReturns(err) == pv' = [pv EXCEPT !.pc = "returned", !.out.err = err]

InitToken ==
  /\ InitBase
  /\ psIn = <<>>
  /\ env = AnyEnv({})
  /\ \E sa \in SANames, st \in [TokenSecrets -> {"absent", "empty", "token"}] :
       pv = [saName |-> sa, store |-> st, pc |-> "getsa", i |-> 0, held |-> NilSecret,
             inspections |-> 0, reads |-> {}, out |-> [err |-> "", token |-> ""]]

\* The Get of the service account.
TokenGetSA ==
  /\ pv.pc = "getsa"
  /\ \/ pv' = [pv EXCEPT !.pc = "apply"]
     \/ TokenReturns("get service account")
  /\ UNCHANGED exceptPv

\* The Apply of the token secret <saName>-token.
TokenApply ==
  /\ pv.pc = "apply"
  /\ \/ pv' = [pv EXCEPT !.pc = "read",
                         !.store[secretName(pv.saName)] =
                           IF @ = "absent" THEN "empty" ELSE @]
     \/ TokenReturns("apply token")
  /\ UNCHANGED exceptPv

\* The first Get of the token secret; its error is returned.
TokenRead ==
  LET n == secretName(pv.saName) IN
  /\ pv.pc = "read"
  /\ \/ /\ pv.store[n] # "absent"
        /\ pv' = [pv EXCEPT !.pc = "inspect", !.reads = @ \cup {n},
                            !.held = [name |-> n, data |-> pv.store[n]]]
     \/ TokenReturns("get token")
  /\ UNCHANGED exceptPv

\* One turn of the loop: data.token of the held secret is looked at.
TokenInspect ==
  /\ pv.pc = "inspect"
  /\ pv.i < tokenAttempts
  /\ pv' = IF pv.held = NilSecret THEN [pv EXCEPT !.pc = "crashed"]
           ELSE IF pv.held.data = "token"
             THEN [pv EXCEPT !.pc = "decode", !.inspections = @ + 1,
                             !.out.token = pv.held.name]
           ELSE [pv EXCEPT !.pc = "sleep", !.inspections = @ + 1]
  /\ UNCHANGED exceptPv

\* The sleep and the Get that follows it; the error of this Get is dropped.
TokenReRead ==
  LET n == "argo-attach-sa-token" IN
  /\ pv.pc = "sleep"
  /\ \/ /\ pv.store[n] # "absent"
        /\ pv' = [pv EXCEPT !.pc = "inspect", !.i = @ + 1, !.reads = @ \cup {n},
                            !.held = [name |-> n, data |-> pv.store[n]]]
     \/ pv' = [pv EXCEPT !.pc = "inspect", !.i = @ + 1, !.reads = @ \cup {n},
                         !.held = NilSecret]
  /\ UNCHANGED exceptPv

\* The loop ran out of turns.
TokenLoopEnds ==
  /\ pv.pc = "inspect"
  /\ pv.i = tokenAttempts
  /\ pv' = [pv EXCEPT !.pc = "decode"]
  /\ UNCHANGED exceptPv

\* After the loop: the timeout error, or the token found.
TokenReturn ==
  /\ pv.pc = "decode"
  /\ TokenReturns(IF pv.out.token = "" THEN "timeout" ELSE "")
  /\ UNCHANGED exceptPv

\* The token controller fills in a token secret.
TokenMaterializes(n) ==
  /\ pv.pc \notin {"returned", "crashed"}
  /\ pv.store[n] = "empty"
  /\ pv' = [pv EXCEPT !.store[n] = "token"]
  /\ UNCHANGED exceptPv

NextToken ==
  \/ TokenGetSA
  \/ TokenApply
  \/ TokenRead
  \/ TokenInspect
  \/ TokenReRead
  \/ TokenLoopEnds
  \/ TokenReturn
  \/ \E n \in TokenSecrets : TokenMaterializes(n)

SpecToken == InitToken /\ [][NextToken]_vars


(***************************************************************************)
(* main's command line: the flags are declared, the resync period is       *)
(* computed, the command line is parsed, and the informer of each          *)
(* controller is set up with the period.  pv holds the command line, the   *)
(* cell flag.Int returned, the period and what each informer was given.    *)
(***************************************************************************)
defaultResync == 60

MaxPeriod == 90

\* --resync-period: absent, or one value in seconds.
ResyncArgs == {<<>>} \cup {<<n>> : n \in 1..MaxPeriod}

InitMain ==
  /\ InitBase
  /\ psIn = <<>>
  /\ env = AnyEnv({})
  /\ \E r \in ResyncArgs, b \in SUBSET {"argocd", "blocked"} :
       pv = [args |-> [resync |-> r, blocked |-> b], pc |-> "flags", resync |-> 0,
             namespaces |-> {}, resyncPeriod |-> 0, informer |-> [c \in Kinds |-> 0]]

\* flag.Var and flag.Int: each flag's cell holds its default.
MainFlags ==
  /\ pv.pc = "flags"
  /\ pv' = [pv EXCEPT !.pc = "period", !.resync = defaultResync]
  /\ UNCHANGED exceptPv

\* resyncPeriod := time.Duration(*resync) * time.Second
MainPeriod ==
  /\ pv.pc = "period"
  /\ pv' = [pv EXCEPT !.pc = "parse", !.resyncPeriod = pv.resync]
  /\ UNCHANGED exceptPv

\* flag.Parse: the cells take what the command line supplies.
MainParse ==
  /\ pv.pc = "parse"
  /\ pv' = [pv EXCEPT !.pc = "setup",
                      !.resync = IF pv.args.resync = <<>> THEN @ ELSE pv.args.resync[1],
                      !.namespaces = pv.args.blocked]
  /\ UNCHANGED exceptPv

\* setupInformer for the cluster controller, then for the namespace one.
MainSetupInformer(c) ==
  /\ pv.pc = "setup"
  /\ pv.informer[c] = 0
  /\ c = "argonamespaces" => pv.informer["argoclusters"] # 0
  /\ pv' = [pv EXCEPT !.informer[c] = pv.resyncPeriod,
                      !.pc = IF c = "argonamespaces" THEN "running" ELSE @]
  /\ UNCHANGED exceptPv

NextMain ==
  \/ MainFlags
  \/ MainPeriod
  \/ MainParse
  \/ \E c \in Kinds : MainSetupInformer(c)

SpecMain == InitMain /\ [][NextMain]_vars


(***************************************************************************)
(* deleteNamespaceCleanup step by step on the resources of the object's    *)
(* namespace and the Argo cluster secret: each Delete removes a resource   *)
(* that exists, and returns its error otherwise.  pv holds the object's    *)
(* spec.serviceAccount, the resources before and now, and those deleted.   *)
(***************************************************************************)
Resource(kind, name) == [kind |-> kind, name |-> name]

\* The secret supervisor-ns-<namespace>-argo-cluster in spec.argoNamespace.
ClusterSecret == Resource("secret", "supervisor-ns-ns1-argo-cluster")

Resources ==
  {ClusterSecret} \cup {Resource("secret", secretName(n)) : n \in SANames}
    \cup {Resource(kind, n) : kind \in {"sa", "rb"}, n \in SANames}

saNameOf(serviceAccount) ==
  IF serviceAccount # "" THEN serviceAccount ELSE "argo-attach-sa"

\* A cleanup that goes on to the service account whoever supplied it.
AfterTokenAlways(serviceAccount) == "sa"

\* After the token secret: the account and role binding only if created here.
AfterToken(serviceAccount) == IF serviceAccount = "" THEN "sa" ELSE "secret"

InitNsCleanup ==
  /\ InitBase
  /\ psIn = <<>>
  /\ env = AnyEnv({})
  /\ \E sa \in {""} \cup SANames, ok \in BOOLEAN, st \in SUBSET Resources :
       pv = [in |-> [serviceAccount |-> sa, convertible |-> ok], before |-> st,
             store |-> st, deleted |-> {}, pc |-> "convert", out |-> [err |-> ""]]

NsCleanupReturns(err) == pv' = [pv EXCEPT !.pc = "returned", !.out.err = err]

\* One Delete call: the resource goes, or the error is returned.
NsCleanupDelete(r, next) ==
  \/ /\ r \in pv.store
     /\ pv' = [pv EXCEPT !.store = @ \ {r}, !.deleted = @ \cup {r}, !.pc = next]
  \/ NsCleanupReturns("delete")

NsCleanupConvert ==
  /\ pv.pc = "convert"
  /\ IF pv.in.convertible THEN pv' = [pv EXCEPT !.pc = "token"]
     ELSE NsCleanupReturns("conversion")
  /\ UNCHANGED exceptPv

NsCleanupToken ==
  /\ pv.pc = "token"
  /\ NsCleanupDelete(Resource("secret", secretName(saNameOf(pv.in.serviceAccount))),
                     AfterToken(pv.in.serviceAccount))
  /\ UNCHANGED exceptPv

NsCleanupServiceAccount ==
  /\ pv.pc = "sa"
  /\ NsCleanupDelete(Resource("sa", saNameOf(pv.in.serviceAccount)), "rb")
  /\ UNCHANGED exceptPv

NsCleanupRoleBinding ==
  /\ pv.pc = "rb"
  /\ NsCleanupDelete(Resource("rb", saNameOf(pv.in.serviceAccount)), "secret")
  /\ UNCHANGED exceptPv

NsCleanupSecret ==
  /\ pv.pc = "secret"
  /\ NsCleanupDelete(ClusterSecret, "end")
  /\ UNCHANGED exceptPv

NsCleanupEnd ==
  /\ pv.pc = "end"
  /\ NsCleanupReturns("")
  /\ UNCHANGED exceptPv

NextNsCleanup ==
  \/ NsCleanupConvert
  \/ NsCleanupToken
  \/ NsCleanupServiceAccount
  \/ NsCleanupRoleBinding
  \/ NsCleanupSecret
  \/ NsCleanupEnd

SpecNsCleanup == InitNsCleanup /\ [][NextNsCleanup]_vars

(***************************************************************************)
(* Properties.                                                             *)
(***************************************************************************)
Busy(c, w) == wk[c][w].pc \notin {"idle", "stopped"}

Pos(log, e) == {i \in 1..Len(log) : log[i] = e}

Calls(log, call) == {i \in 1..Len(log) : log[i].call = call}

\* C1: an object on which Provision has been invoked is destroyed by the
\* store only after a Cleanup invocation for it has returned success.
NoDestroyBeforeCleanup ==
  \A c \in Kinds, k \in Names :
    (obj[c][k].life = "gone" /\ hist[c][k].prov) => hist[c][k].cleaned

\* A provisioned object was cleaned up and then destroyed, after a requeue.
DestroyedAfterCleanup ==
  \E c \in Kinds, k \in Names :
    /\ obj[c][k].life = "gone"
    /\ hist[c][k].prov
    /\ hist[c][k].cleaned
    /\ ~secret[c][k]

\* C2: in a pass on a deleting object that holds the managed finalizer,
\* Cleanup is the first call; the finalizer is written only after Cleanup
\* returned success in that pass; when Cleanup returned an error the pass
\* writes no finalizer and returns an error.
CleanupBeforeFinalizer ==
  \A c \in Kinds, w \in Workers :
    LET p == wk[c][w]
        deleting == p.u.del /\ containsFinalizer(p.u.fin, finalizerName(c))
    IN /\ (deleting /\ p.log # <<>>) => p.log[1].call = "cleanup"
       /\ \A i \in Pos(p.log, Ev("finalizers", "remove", TRUE)) \cup
                   Pos(p.log, Ev("finalizers", "remove", FALSE)) :
            \E j \in 1..(i - 1) : p.log[j] = Ev("cleanup", "", TRUE)
       /\ Pos(p.log, Ev("cleanup", "", FALSE)) # {} =>
            /\ Calls(p.log, "finalizers") = {}
            /\ p.res = "cleanup"
            /\ p.pc \in {"defer", "classify", "done"}
       /\ (deleting /\ p.pc \in {"rmfin", "classify", "done"} /\ p.res = "") =>
            Pos(p.log, Ev("cleanup", "", TRUE)) # {}

\* The third pass of a key that failed twice: Cleanup succeeded and the
\* finalizer was removed in it.
RemovedInThirdPass ==
  \E c \in Kinds, w \in Workers :
    /\ wk[c][w].pc = "classify"
    /\ wk[c][w].res = ""
    /\ wk[c][w].log = <<Ev("cleanup", "", TRUE), Ev("finalizers", "remove", TRUE)>>
    /\ failures[wk[c][w].item] = 2
    /\ obj[c][wk[c][w].item].life = "gone"

\* C3: a key is being processed by at most one worker of its controller, and
\* the queue holds a key that is being processed back until Done.
OneWorkerPerKey ==
  \A c \in Kinds :
    /\ \A w1, w2 \in Workers :
         (w1 # w2 /\ Busy(c, w1) /\ Busy(c, w2)) => wk[c][w1].item # wk[c][w2].item
    /\ Queue[c].processing = {wk[c][w].item : w \in {v \in Workers : Busy(c, v)}}
    /\ Range(Queue[c].queue) \cap Queue[c].processing = {}

\* A key was added again while a worker processes it: it is marked dirty and
\* the other worker, idle, is given nothing.
AddedWhileProcessing ==
  \E c \in Kinds, w \in Workers :
    /\ Busy(c, w)
    /\ wk[c][w].item \in Queue[c].dirty
    /\ Queue[c].queue = <<>>
    /\ \A v \in Workers \ {w} : ~Busy(c, v)
\* C4: Reconcile is idempotent: with nothing else changing the store, every
\* pass after the first leaves the finalizers and the status state that the
\* first pass left.
ReconcileIdempotent ==
  \A i \in 3..Len(snaps) :
    /\ snaps[i].life = snaps[2].life
    /\ snaps[i].fin = snaps[2].fin
    /\ snaps[i].status = snaps[2].status

\* A second pass ran on an object whose first pass added the finalizer and
\* wrote Ready.
SecondPassAfterReady ==
  \E c \in Kinds :
    /\ Len(snaps) >= 3
    /\ snaps[1].fin = <<OtherToken>>
    /\ snaps[2].fin = <<OtherToken, finalizerName(c)>>
    /\ snaps[2].status = "Ready"
    /\ snaps[3].status = "Ready"

\* The first pass ran on an object that is not being deleted and has no
\* managed finalizer, and the store answered its reads and finalizer writes.
FirstPassOnNew(c) ==
  /\ c \in env.kinds
  /\ Len(snaps) >= 2
  /\ ~snaps[1].del
  /\ ~containsFinalizer(snaps[1].fin, finalizerName(c))
  /\ env.get = "ok"
  /\ env.patch = "ok"

StatusWritten == env.status \in {"ok", "retry", "exists"}

ProvisionOncePerGeneration ==
  [][\A c \in Kinds, w \in Workers :
       (wk[c][w].pc = "provision" /\ wk'[c][w].pc # "provision") =>
         hist[c][wk[c][w].item].readyGen # wk[c][w].u.gen]_vars

\* C7: the n-th consecutive rate limited requeue of a key by its controller
\* is delayed by min(BaseDelay * 2^(n-1), MaxDelay).
BackoffDoubles ==
  \A c \in Kinds, k \in Names :
    rl[c][k].n >= 1 => rl[c][k].delay = Min(BaseDelay * Pow2(rl[c][k].n - 1), MaxDelay)

\* C8 as stated: the 10th consecutive failure of a key is not requeued, so no
\* key is ever requeued MaxRequeues times in a row.
ForgetAtTenthFailure ==
  \A c \in Kinds, k \in Names : rl[c][k].n <= MaxRequeues - 1

\* C8: a failure of a key is requeued with backoff while the limiter counts
\* fewer than MaxRequeues failures for the key; the failure that finds
\* MaxRequeues counted resets the counter and adds nothing to the queue; the
\* counter never passes MaxRequeues.
ForgetAboveCeiling ==
  /\ [](\A k \in Names : failures[k] <= MaxRequeues)
  /\ [][\A c \in Kinds, w \in Workers :
          LET k == wk[c][w].item IN
          (wk[c][w].pc = "classify" /\ wk'[c][w].pc = "done" /\ wk[c][w].res # "") =>
            IF failures[k] < MaxRequeues
              THEN /\ failures'[k] = failures[k] + 1
                   /\ k \in Queue'[c].waiting
              ELSE /\ failures'[k] = 0
                   /\ Queue'[c] = Queue[c]]_vars

\* A worker has just forgotten a key whose pass failed.
ForgottenAfterFailure ==
  \E c \in Kinds, w \in Workers :
    /\ wk[c][w].pc = "done"
    /\ wk[c][w].res # ""
    /\ wk[c][w].log[Len(wk[c][w].log)] = Ev("Forget", "", TRUE)
    /\ failures[wk[c][w].item] = 0
    /\ wk[c][w].item \notin Queue[c].waiting

Ran == psOut.attempts >= 1

\* The answers before attempt i were all Conflict or AlreadyExists.
ConflictsBefore(i) == \A j \in 1..(i - 1) : IsConflictClass(psIn[j])

\* C9: patchStatus makes at most maxRetries attempts; it goes on after a
\* Conflict or AlreadyExists; it returns success at the first attempt that
\* succeeds; it returns the conflict error exactly when maxRetries attempts
\* in a row failed with Conflict or AlreadyExists.
AtMostFiveAttempts ==
  Ran =>
    /\ psOut.attempts <= maxRetries
    /\ ConflictsBefore(psOut.attempts)
    /\ \A i \in 1..maxRetries :
         (ConflictsBefore(i) /\ psIn[i] = "ok") =>
           psOut = [attempts |-> i, applied |-> TRUE, err |-> ""]
    /\ psOut.err = "conflict" <=> ConflictsBefore(maxRetries + 1)
    /\ psOut.err = "conflict" => psOut.attempts = maxRetries /\ ~psOut.applied

\* Conflict on attempts 1 and 2, success on attempt 3.
SuccessOnThirdAttempt ==
  /\ psIn[1] = "conflict"
  /\ psIn[2] = "exists"
  /\ psIn[3] = "ok"
  /\ psOut = [attempts |-> 3, applied |-> TRUE, err |-> ""]

\* C10: patchStatus returns success, nothing applied and no further attempt,
\* at the first NotFound; it returns the error, with no further attempt, at
\* the first error that is neither NotFound nor Conflict nor AlreadyExists.
NotFoundSilentOtherReturned ==
  Ran =>
    \A i \in 1..maxRetries :
      /\ (ConflictsBefore(i) /\ psIn[i] = "notfound") =>
           psOut = [attempts |-> i, applied |-> FALSE, err |-> ""]
      /\ (ConflictsBefore(i) /\ psIn[i] = "other") =>
           psOut = [attempts |-> i, applied |-> FALSE, err |-> "other"]

\* A conflict on the first attempt, NotFound on the second.
NotFoundOnSecondAttempt ==
  /\ psIn[1] = "conflict"
  /\ psIn[2] = "notfound"
  /\ psIn[3] = "ok"
  /\ psOut = [attempts |-> 2, applied |-> FALSE, err |-> ""]
\* C11: when the by-key fetch answers NotFound the item ends cleanly: the
\* pass makes no other call (no Provision, no Cleanup, no finalizer or status
\* write) and returns success, and the worker forgets the key: the failure
\* counter is reset and nothing is requeued.
NotFoundEndsCleanly ==
  /\ [](\A c \in Kinds, w \in Workers :
          LET p == wk[c][w] IN
          Pos(p.log, Ev("get", "notfound", FALSE)) # {} =>
            /\ p.res = ""
            /\ p.pc \in {"classify", "done"}
            /\ p.log = IF p.pc = "classify"
                         THEN <<Ev("get", "notfound", FALSE)>>
                         ELSE <<Ev("get", "notfound", FALSE), Ev("Forget", "", TRUE)>>)
  /\ [][\A c \in Kinds, w \in Workers :
          (wk[c][w].log = <<Ev("get", "notfound", FALSE)>> /\ wk'[c][w].pc = "done") =>
            /\ failures'[wk[c][w].item] = 0
            /\ Queue'[c] = Queue[c]
            /\ obj' = obj /\ secret' = secret /\ hist' = hist]_vars

\* A key of a destroyed object was fetched after earlier failures, and
\* forgotten.
ForgottenAfterNotFound ==
  \E c \in Kinds, w \in Workers :
    /\ wk[c][w].pc = "done"
    /\ wk[c][w].log = <<Ev("get", "notfound", FALSE), Ev("Forget", "", TRUE)>>
    /\ obj[c][wk[c][w].item].life = "gone"
    /\ hist[c][wk[c][w].item].cleaned
\* The worker's pass is on an object without deletionTimestamp that holds
\* the managed finalizer.
Provisioning(c, w) ==
  /\ ~wk[c][w].u.del
  /\ containsFinalizer(wk[c][w].u.fin, finalizerName(c))

Ended(c, w) == wk[c][w].pc \in {"classify", "done"}

StatusEvents(log, state) == {i \in 1..Len(log) : log[i].call = "status" /\ log[i].arg = state}

\* C12 as stated: in such a pass, a Provision that succeeded is followed by
\* the write of Ready and the pass returns success; a Provision that failed
\* is followed by the write of Failed with the failure message and the pass
\* returns the error; Ready is not written after a failed Provision.
ProvisionOutcomeWritten ==
  \A c \in Kinds, w \in Workers :
    LET p == wk[c][w] IN
    (Provisioning(c, w) /\ Ended(c, w)) =>
      /\ Pos(p.log, Ev("provision", "", TRUE)) # {} =>
           /\ p.res = ""
           /\ \E i \in StatusEvents(p.log, "Ready") : p.log[i].ok
      /\ Pos(p.log, Ev("provision", "", FALSE)) # {} =>
           /\ p.res = "provision"
           /\ \E i \in StatusEvents(p.log, "Failed") :
                p.log[i].ok /\ p.log[i].msg = "provision"
           /\ StatusEvents(p.log, "Ready") = {}

\* C12: in such a pass Provision is the first call.  After a Provision that
\* succeeded the next call is the write of Ready, and the pass returns what
\* that write returns.  After a Provision that failed the pass re-fetches
\* and, unless the re-fetch fails, writes Failed with the failure message;
\* it returns the provisioning error whatever the write did, and the key is
\* requeued while it is below the retry ceiling; Ready is not written.
ProvisionOutcomeAttempted ==
  /\ [](\A c \in Kinds, w \in Workers :
          LET p == wk[c][w] IN
          (Provisioning(c, w) /\ p.log # <<>>) =>
            /\ p.log[1].call = "provision"
            /\ (p.log[1].ok /\ Ended(c, w)) =>
                 /\ p.log[2].call = "status" /\ p.log[2].arg = "Ready"
                 /\ p.res = IF p.log[2].ok THEN "" ELSE "status"
            /\ (~p.log[1].ok /\ Ended(c, w)) =>
                 /\ p.res = "provision"
                 /\ \/ p.log[2].call = "refetch"
                    \/ /\ p.log[2].call = "status" /\ p.log[2].arg = "Failed"
                       /\ p.log[2].msg = "provision"
                 /\ StatusEvents(p.log, "Ready") = {}
            /\ ~p.log[1].ok => StatusEvents(p.log, "Ready") = {})
  /\ [][\A c \in Kinds, w \in Workers :
          (Provisioning(c, w) /\ wk[c][w].pc = "classify" /\ wk'[c][w].pc = "done"
             /\ wk[c][w].res = "provision" /\ failures[wk[c][w].item] < MaxRequeues) =>
            wk[c][w].item \in Queue'[c].waiting]_vars

\* A pass whose Provision failed wrote Failed with the message and was
\* requeued.
FailedWrittenAndRequeued ==
  \E c \in Kinds, w \in Workers :
    /\ Provisioning(c, w)
    /\ wk[c][w].pc = "done"
    /\ wk[c][w].res = "provision"
    /\ wk[c][w].log = <<Ev("provision", "", FALSE),
                        EvStatus(updateGenericStatus(FALSE, "provision"), TRUE),
                        Ev("AddRateLimited", "", TRUE)>>
    /\ obj[c][wk[c][w].item].status = "Failed"
BranchFromFetchedObject ==
  /\ [][\A c \in Kinds, w \in Workers :
          LET k == wk[c][w].item IN
          (wk[c][w].pc = "fetch" /\ wk'[c][w].pc \notin {"fetch", "classify"}) =>
            /\ obj[c][k].life = "live"
            /\ wk'[c][w].u = [del |-> obj[c][k].del, fin |-> obj[c][k].fin,
                              gen |-> obj[c][k].gen]
            /\ wk'[c][w].pc = Branch(c, wk'[c][w].u)]_vars
  /\ [](\A c \in Kinds, w \in Workers :
          LET p == wk[c][w]
              has == containsFinalizer(p.u.fin, finalizerName(c))
          IN /\ p.pc \in {"cleanup", "rmfin"} => p.u.del /\ has
             /\ p.pc \in {"addfin", "pending"} => ~p.u.del /\ ~has
             /\ p.pc \in {"provision", "ready"} => ~p.u.del)

\* The creation and a spec change collapsed into one pass, which fetched the
\* object as it is now.
CollapsedNotifications ==
  \E c \in Kinds, w \in Workers :
    LET p == wk[c][w] IN
    /\ p.pc = "addfin"
    /\ p.u.gen = MaxGen
    /\ obj[c][p.item].gen = MaxGen
    /\ ~hist[c][p.item].prov
    /\ failures[p.item] = 0
    /\ notif[c] = {}
    /\ Queue[c].dirty = {}
    /\ Queue[c].waiting = {}
\* C15: when Run returns, no worker of the controller is in the middle of
\* an item.
RunDrainsBeforeReturn ==
  [][\A c \in Kinds :
       (~proc.returned[c] /\ proc'.returned[c]) =>
         \A w \in Workers : ~Busy(c, w)]_vars
Provisioned == pv.done

\* C16: no failure of a reconcile crashes the process: whatever the object
\* holds and whichever store call fails, Provision returns (nil or an error)
\* and does not panic.
ProvisionNeverPanics == Provisioned => ~pv.out.panic

\* C18: for an object whose spec.argoNamespace is on the blocked list,
\* Provision returns an error and writes no secret to that namespace.
BlockedNamespaceRefused ==
  (Provisioned /\ pv.in.convertible /\ pv.in.hasSpec /\ pv.in.argoNamespace \in Blocked) =>
    /\ pv.out.err # ""
    /\ ArgoSecret(pv.in) \notin pv.out.written
\* The key of a live object was forgotten after its last pass failed:
\* status Failed stands, no failure is counted, and the key is neither
\* queued, delayed, in flight nor about to be added.
ForgottenAtCeiling(c, k) ==
  /\ Live(c, k)
  /\ obj[c][k].status = "Failed"
  /\ failures[k] = 0
  /\ notif[c] = {}
  /\ Queue[c] = EmptyQueue
  /\ \A w \in Workers : wk[c][w].pc = "idle"

\* C17: the resync that follows the forgetting of a key enqueues the key
\* again, whether or not the object is being deleted or has a new generation.
ResyncRequeuesForgotten ==
  [][\A c \in Kinds, k \in Names :
       (ForgottenAtCeiling(c, k) /\ proc'.resyncs # proc.resyncs) =>
         k \in notif'[c]]_vars
\* C19: a Cleanup invoked when the object's dependent resources are already
\* absent (never provisioned, or deleted by an earlier Cleanup) returns
\* success, so the pass goes on to the finalizer removal.
CleanupIdempotent ==
  [][\A c \in Kinds, w \in Workers :
       (/\ wk[c][w].pc = "cleanup"
        /\ wk'[c][w].pc # "cleanup"
        /\ ~secret[c][wk[c][w].item]) =>
         /\ wk'[c][w].pc = "rmfin"
         /\ wk'[c][w].res = ""]_vars
\* A worker's finalizer write that the store accepted.
FinalizerWritten(c, w) ==
  /\ wk[c][w].pc \in {"addfin", "rmfin"}
  /\ wk'[c][w].pc \in {"pending", "classify"}

\* C20: a finalizer write succeeds only on the object as the Reconciler
\* fetched it, and the only token whose presence it changes is the managed
\* one: a token another writer added or removed in between is not overwritten.
FinalizerWriteGuarded ==
  [][\A c \in Kinds, w \in Workers :
       FinalizerWritten(c, w) =>
         LET k == wk[c][w].item IN
         /\ Fetched(c, k) = wk[c][w].u
         /\ (Range(obj'[c][k].fin) \ Range(obj[c][k].fin)) \cup
            (Range(obj[c][k].fin) \ Range(obj'[c][k].fin)) \subseteq {finalizerName(c)}]_vars
\* The calls of Reconcile in a worker's log, without the queue calls that
\* end the item.
ReconcileLog(c, w) ==
  SelectSeq(wk[c][w].log, LAMBDA e : e.call \notin {"AddRateLimited", "Forget"})

\* The worker is in a pass on a fetched object that has no deletionTimestamp
\* and no managed finalizer.
NewObjectPass(c, w) ==
  /\ Busy(c, w)
  /\ wk[c][w].pc # "fetch"
  /\ wk[c][w].u # NoU
  /\ ~wk[c][w].u.del
  /\ ~containsFinalizer(wk[c][w].u.fin, finalizerName(c))

\* C21: in one pass on an object without deletionTimestamp and without the
\* managed finalizer the calls are, in this order, the finalizer write, the
\* Pending status write, Provision, and the Ready or Failed status write (the
\* latter after a re-fetch); a pass whose finalizer write succeeded does not
\* end, and requeues nothing, before Provision was invoked.
AddThenProvisionInOnePass ==
  \A c \in Kinds, w \in Workers :
    NewObjectPass(c, w) =>
      LET log == ReconcileLog(c, w)
          n == Len(log)
          written == n >= 1 /\ log[1].ok
      IN /\ n >= 1 => log[1].call = "finalizers" /\ log[1].arg = "add"
         /\ (written /\ n >= 2) => log[2].call = "status" /\ log[2].arg = "Pending"
         /\ (written /\ n >= 3) => log[3].call = "provision"
         /\ (written /\ n >= 4) =>
              \/ log[4].call = "status" /\ log[4].arg = "Ready" /\ log[3].ok
              \/ log[4].call = "status" /\ log[4].arg = "Failed" /\ ~log[3].ok
              \/ log[4].call = "refetch" /\ ~log[4].ok /\ ~log[3].ok
         /\ n <= 4
         /\ (written /\ wk[c][w].pc \in {"classify", "done"}) => n = 4
         /\ (written /\ n < 4) => wk[c][w].log = log

\* A pass added the finalizer, wrote Pending, provisioned and wrote Ready.
AddedAndReadyInOnePass ==
  \E c \in Kinds, w \in Workers :
    /\ NewObjectPass(c, w)
    /\ wk[c][w].pc = "classify"
    /\ wk[c][w].log = <<Ev("finalizers", "add", TRUE),
                        EvStatus(updateGenericStatus(FALSE, ""), TRUE),
                        Ev("provision", "", TRUE),
                        EvStatus(updateGenericStatus(TRUE, ""), TRUE)>>
\* The worker is in a pass on a fetched object that has a deletionTimestamp
\* and no managed finalizer.
ForeignDeletionPass(c, w) ==
  /\ Busy(c, w)
  /\ wk[c][w].pc # "fetch"
  /\ wk[c][w].u.del
  /\ ~containsFinalizer(wk[c][w].u.fin, finalizerName(c))

\* C22: a pass on an object with deletionTimestamp set and the managed
\* finalizer absent calls neither Cleanup nor Provision, writes neither
\* finalizers nor status, returns success (the key is forgotten), and its
\* steps leave the object and its dependents as they are.
ForeignDeletionIsNoOp ==
  /\ [](\A c \in Kinds, w \in Workers :
          ForeignDeletionPass(c, w) =>
            /\ ReconcileLog(c, w) = <<>>
            /\ wk[c][w].res = ""
            /\ wk[c][w].pc \in {"classify", "done"}
            /\ wk[c][w].pc = "done" => wk[c][w].log = <<Ev("Forget", "", TRUE)>>)
  /\ [][\A c \in Kinds, w \in Workers :
          (ForeignDeletionPass(c, w) /\ wk'[c][w] # wk[c][w]) =>
            /\ obj' = obj
            /\ secret' = secret
            /\ hist' = hist
            /\ notif' = notif]_vars

\* A pass found the object deleting under another controller's finalizer
\* only, and has forgotten the key.
ForeignDeletionForgotten ==
  \E c \in Kinds, w \in Workers :
    /\ ForeignDeletionPass(c, w)
    /\ wk[c][w].u.fin = <<OtherToken>>
    /\ wk[c][w].pc = "done"
    /\ Live(c, wk[c][w].item)
\* The classifying calls in a worker's log.
Classified(c, w) == Calls(wk[c][w].log, "AddRateLimited") \cup Calls(wk[c][w].log, "Forget")

\* The worker calls Queue.Done for its item in this step.
CallsDone(c, w) ==
  /\ wk[c][w].item \in Queue[c].processing
  /\ wk[c][w].item \notin Queue'[c].processing
  /\ wk'[c][w] # wk[c][w]

\* C23: the processing of every dequeued item ends with one call of Done,
\* made when exactly one of AddRateLimited and Forget has been called for it:
\* never both, never neither.
EveryItemClassified ==
  /\ [](\A c \in Kinds, w \in Workers : Cardinality(Classified(c, w)) <= 1)
  /\ [][\A c \in Kinds, w \in Workers :
          CallsDone(c, w) => Cardinality(Classified(c, w)) = 1]_vars
\* Controller c requeues the key of its worker w with backoff in this step,
\* its last classification of the key having been a Forget: an earlier pass
\* of c left the managed finalizer, and c counts no requeue since.
RequeuesAfterForget(c, w) ==
  /\ wk[c][w].pc = "classify"
  /\ wk'[c][w].pc = "done"
  /\ wk[c][w].res # ""
  /\ RetryAllowed(wk[c][w].item)
  /\ containsFinalizer(wk[c][w].u.fin, finalizerName(c))
  /\ rl[c][wk[c][w].item].n = 0

\* C24: a Forget leaves the key's failure counter at 0, and the failure of
\* the key that follows a Forget by its controller is requeued with the base
\* delay.
ForgetResetsBackoff ==
  [][\A c \in Kinds, w \in Workers :
       /\ (wk[c][w].pc = "classify" /\ wk'[c][w].pc = "done" /\
           ~(wk[c][w].res # "" /\ RetryAllowed(wk[c][w].item))) =>
            failures'[wk[c][w].item] = 0
       /\ RequeuesAfterForget(c, w) =>
            /\ failures[wk[c][w].item] = 0
            /\ rl'[c][wk[c][w].item].delay = BaseDelay]_vars
\* C25: each key occurs at most once among the pending entries of a queue,
\* the pending entries are the keys marked dirty that are not in flight, and
\* an Add of a pending key, by a handler or when a requeue delay elapses,
\* leaves the pending entries as they are.
PendingOnce ==
  /\ [](\A c \in Kinds :
          /\ \A k \in Names : Count(Queue[c].queue, k) <= 1
          /\ Range(Queue[c].queue) = Queue[c].dirty \ Queue[c].processing)
  /\ [][\A c \in Kinds, k \in Names :
          (/\ k \in Range(Queue[c].queue)
           /\ \/ k \in notif[c] /\ k \notin notif'[c]
              \/ k \in Queue[c].waiting /\ k \notin Queue'[c].waiting) =>
            Queue'[c].queue = Queue[c].queue]_vars

\* A key is pending once while a notification and an elapsing requeue delay
\* are both about to add it again.
PendingAndAddedTwice ==
  \E c \in Kinds, k \in Names :
    /\ Queue[c].queue = <<k>>
    /\ k \in notif[c]
    /\ k \in Queue[c].waiting
\* C26: a key added while it is in flight is not among the pending entries
\* (Get cannot return it) until the worker calls Done; that Done makes it
\* pending; and under fair scheduling it is then dequeued again, so a worker
\* starts a reconcile of the key after the change.
AddedInFlightReconciledAgain ==
  /\ [](\A c \in Kinds : Range(Queue[c].queue) \cap Queue[c].processing = {})
  /\ [][\A c \in Kinds, w \in Workers :
          (CallsDone(c, w) /\ wk[c][w].item \in Queue[c].dirty) =>
            wk[c][w].item \in Range(Queue'[c].queue)]_vars
  /\ \A c \in Kinds, k \in Names :
       (k \in Queue[c].dirty /\ k \in Queue[c].processing) ~>
         (/\ k \notin Queue[c].dirty
          /\ \E w \in Workers : wk[c][w].pc = "fetch" /\ wk[c][w].item = k)

\* The spec changed to generation 2 while a worker reconciled generation 1:
\* the worker is about to call Done with the key added again.
ChangedWhileInFlight ==
  \E c \in Kinds, w \in Workers :
    /\ wk[c][w].pc = "done"
    /\ wk[c][w].u.gen = 1
    /\ obj[c][wk[c][w].item].gen = 2
    /\ wk[c][w].item \in Queue[c].dirty
    /\ notif[c] = {}
\* C27: once the context is cancelled no worker dequeues an item.
NoDequeueAfterCancel ==
  [][\A c \in Kinds, w \in Workers :
       (proc.ctx = "cancelled" /\ wk[c][w].pc = "idle") => wk'[c][w].pc # "fetch"]_vars
\* C28: a worker leaves its loop only when Get reports the shutdown, that
\* is when the queue is shut down and nothing is queued; and under fair
\* scheduling, once a queue is shut down it is drained and all the workers
\* of its controller stop.
WorkersStopAfterShutDown ==
  /\ [][\A c \in Kinds, w \in Workers :
          (wk[c][w].pc # "stopped" /\ wk'[c][w].pc = "stopped") =>
            /\ Queue[c].shuttingDown
            /\ Queue[c].queue = <<>>
            /\ wk[c][w].pc = "idle"]_vars
  /\ \A c \in Kinds :
       Queue[c].shuttingDown ~>
         (/\ \A w \in Workers : wk[c][w].pc = "stopped"
          /\ Queue[c].queue = <<>>
          /\ Queue[c].processing = {})

\* All workers of a controller have stopped after its queue was shut down;
\* the pass that failed around the shutdown was not requeued.
StoppedAfterDraining ==
  \E c \in Kinds, k \in Names :
    /\ Queue[c].shuttingDown
    /\ \A w \in Workers : wk[c][w].pc = "stopped"
    /\ failures[k] = 1
    /\ Queue[c].waiting = {}
\* C29: with no change to the object from outside since it was fetched, a
\* step of the pass (a status or finalizer write that leaves the object in
\* the store) raises no notification for the key, so a key whose pass failed
\* comes back only through its rate limited requeue.
OwnWritesNotEnqueued ==
  [][\A c \in Kinds, w \in Workers :
       LET k == wk[c][w].item IN
       (/\ wk'[c][w] # wk[c][w]
        /\ wk[c][w].u # NoU
        /\ Live(c, k)
        /\ obj[c][k].gen = wk[c][w].u.gen
        /\ obj[c][k].del = wk[c][w].u.del
        /\ obj'[c][k].life = "live") =>
         notif'[c] = notif[c]]_vars
\* C30: the classification of an item by one controller leaves the failure
\* counter and the next delay that the other controller's queue reports for
\* its object of the same namespace and name as they are.
BackoffPerKind ==
  [][\A c \in Kinds, w \in Workers :
       LET k == wk[c][w].item IN
       (wk[c][w].pc = "classify" /\ wk'[c][w].pc = "done") =>
         \A d \in Kinds \ {c} :
           Live(d, k) => /\ NumRequeues(k)' = NumRequeues(k)
                         /\ When(k)' = When(k)]_vars
\* The write that adds the managed finalizer failed in the worker's pass.
AddFailed(c, w) ==
  /\ wk[c][w].log # <<>>
  /\ wk[c][w].log[1] = Ev("finalizers", "add", FALSE)

\* C31: a pass whose finalizer addition failed invokes no Provision and
\* writes neither Pending nor Ready; it returns the error, and the worker
\* classifies it as a failure: below the retry ceiling the key is requeued
\* with backoff.
AddFailureIsRetried ==
  /\ [](\A c \in Kinds, w \in Workers :
          AddFailed(c, w) =>
            /\ Calls(wk[c][w].log, "provision") = {}
            /\ StatusEvents(wk[c][w].log, "Pending") = {}
            /\ StatusEvents(wk[c][w].log, "Ready") = {}
            /\ wk[c][w].res = "finalizer"
            /\ wk[c][w].pc \in {"defer", "classify", "done"})
  /\ [][\A c \in Kinds, w \in Workers :
          LET k == wk[c][w].item IN
          (AddFailed(c, w) /\ wk[c][w].pc = "classify" /\ wk'[c][w].pc = "done"
             /\ failures[k] < MaxRequeues) =>
            /\ failures'[k] = failures[k] + 1
            /\ k \in Queue'[c].waiting
            /\ Calls(wk'[c][w].log, "AddRateLimited") # {}]_vars

\* The finalizer addition failed, Failed was written, the key was requeued.
AddFailedAndRequeued ==
  \E c \in Kinds, w \in Workers :
    /\ wk[c][w].pc = "done"
    /\ wk[c][w].log = <<Ev("finalizers", "add", FALSE),
                        EvStatus(updateGenericStatus(FALSE, "finalizer"), TRUE),
                        Ev("AddRateLimited", "", TRUE)>>
    /\ wk[c][w].item \in Queue[c].waiting
\* The error a pass returns for the call that failed in it.
ErrorOf(e) ==
  CASE e.call = "cleanup" -> "cleanup"
    [] e.call = "provision" -> "provision"
    [] e.call = "finalizers" -> "finalizer"
    [] OTHER -> ""

\* C32: a pass in which Cleanup, Provision or a finalizer write failed
\* returns that failure to the worker, whatever the re-fetch and the Failed
\* status write of the deferred update did; and after a re-fetch that found
\* the object absent no status write is attempted.
OriginalErrorReturned ==
  \A c \in Kinds, w \in Workers :
    LET log == wk[c][w].log IN
    wk[c][w].pc \in {"classify", "done"} =>
      /\ \A i \in Calls(log, "cleanup") \cup Calls(log, "provision") \cup
                  Calls(log, "finalizers") :
           ~log[i].ok =>
             /\ wk[c][w].res = ErrorOf(log[i])
             /\ i < Len(log)
             /\ log[i + 1].call \in {"refetch", "status"}
             /\ log[i + 1].call = "status" =>
                  /\ log[i + 1].arg = "Failed"
                  /\ log[i + 1].msg = ErrorOf(log[i])
      /\ Pos(log, Ev("refetch", "notfound", FALSE)) # {} => Calls(log, "status") = {}

\* Provision failed and then the Failed status write failed too: the pass
\* returns the Provision failure.
ProvisionErrorKept ==
  \E c \in Kinds, w \in Workers :
    /\ wk[c][w].pc = "classify"
    /\ wk[c][w].res = "provision"
    /\ wk[c][w].log = <<Ev("provision", "", FALSE),
                        EvStatus(updateGenericStatus(FALSE, "provision"), FALSE)>>
\* The errors a pass can hand to the status function, and none.
ReconcileErrs == {"", "cleanup", "finalizer", "provision"}

States == {"Pending", "Ready", "Failed"}

\* C33: the status function yields Failed for every error whatever the
\* success flag, Ready for success without error and Pending otherwise, with
\* ready true exactly for Ready; and every status the workers write, and
\* every status an object has, is one of these.
StatusTriState ==
  /\ \A success \in BOOLEAN, err \in ReconcileErrs :
       LET st == updateGenericStatus(success, err) IN
       /\ st.state \in States
       /\ st.ready <=> st.state = "Ready"
       /\ st.state = (IF err # "" THEN "Failed" ELSE IF success THEN "Ready" ELSE "Pending")
  /\ \A c \in Kinds, w \in Workers :
       \A i \in Calls(wk[c][w].log, "status") :
         /\ wk[c][w].log[i].arg \in States
         /\ wk[c][w].log[i].arg = "Failed" <=> wk[c][w].log[i].msg \in ReconcileErrs \ {""}
  /\ \A c \in Kinds, k \in Names : obj[c][k].status \in States \cup {""}

\* A pass wrote Pending and then, Provision having failed, Failed.
PendingThenFailedWritten ==
  \E c \in Kinds, w \in Workers :
    /\ StatusEvents(wk[c][w].log, "Pending") # {}
    /\ StatusEvents(wk[c][w].log, "Failed") # {}
    /\ Live(c, wk[c][w].item)
    /\ obj[c][wk[c][w].item].status = "Failed"
\* C34: a pass whose fetched object has deletionTimestamp set calls no
\* Provision, adds no finalizer and writes neither Pending nor Ready, with
\* or without the managed finalizer on the object.
DeletingNeverProvisioned ==
  \A c \in Kinds, w \in Workers :
    (Busy(c, w) /\ wk[c][w].u.del) =>
      /\ Calls(wk[c][w].log, "provision") = {}
      /\ \A i \in Calls(wk[c][w].log, "finalizers") : wk[c][w].log[i].arg = "remove"
      /\ StatusEvents(wk[c][w].log, "Pending") = {}
      /\ StatusEvents(wk[c][w].log, "Ready") = {}
      /\ wk[c][w].pc \notin {"addfin", "pending", "provision", "ready"}

\* A pass on a deleting object that holds the managed finalizer failed in
\* Cleanup and wrote Failed.
DeletingPassFailed ==
  \E c \in Kinds, w \in Workers :
    /\ wk[c][w].u.del
    /\ containsFinalizer(wk[c][w].u.fin, finalizerName(c))
    /\ wk[c][w].pc = "classify"
    /\ wk[c][w].log = <<Ev("cleanup", "", FALSE),
                        EvStatus(updateGenericStatus(FALSE, "cleanup"), TRUE)>>
\* C35: under fair scheduling, with store calls that succeed, an object with
\* deletionTimestamp set and the managed finalizer present eventually has the
\* managed finalizer removed.
FinalizerEventuallyRemoved ==
  \A c \in Kinds, k \in Names :
    (Live(c, k) /\ obj[c][k].del /\ containsFinalizer(obj[c][k].fin, finalizerName(c))) ~>
      ~(Live(c, k) /\ containsFinalizer(obj[c][k].fin, finalizerName(c)))
\* C36: under fair scheduling, with store calls that succeed and a Provision
\* that eventually succeeds, an object that is not being deleted eventually
\* holds the managed finalizer with status Ready recorded for its generation
\* (or its deletion is requested meanwhile).
EventuallyReady ==
  \A c \in Kinds, k \in Names :
    (Live(c, k) /\ ~obj[c][k].del) ~>
      \/ ~Live(c, k) \/ obj[c][k].del
      \/ /\ containsFinalizer(obj[c][k].fin, finalizerName(c))
         /\ obj[c][k].status = "Ready"
         /\ hist[c][k].readyGen = obj[c][k].gen
\* C37: a pass whose Provision returned a conversion error ends with the key
\* forgotten and with no rate-limited requeue.
ConversionErrorDropped ==
  \A c \in Kinds, w \in Workers :
    (/\ wk[c][w].pc = "done"
     /\ Pos(wk[c][w].log, Ev("provision", "conversion", FALSE)) # {}) =>
      /\ Calls(wk[c][w].log, "AddRateLimited") = {}
      /\ Calls(wk[c][w].log, "Forget") # {}
\* C38: getSAToken reads only the secret <saName>-token, inspects it at most
\* ten times, returns the token of that secret at the first inspection that
\* finds one and the timeout error after ten that find none, and never
\* crashes.
TokenWaitBoundedAndRight ==
  /\ pv.pc # "crashed"
  /\ pv.inspections <= tokenAttempts
  /\ pv.reads \subseteq {secretName(pv.saName)}
  /\ (pv.pc = "returned" /\ pv.out.err = "" /\ pv.inspections > 0) =>
       pv.out.token = secretName(pv.saName)
  /\ (pv.pc = "returned" /\ pv.out.err = "timeout") => pv.inspections = tokenAttempts
\* C39: the informer of each controller is given the --resync-period of the
\* command line, and the default of 60 seconds only when none is supplied.
ResyncPeriodIsSupplied ==
  pv.pc = "running" =>
    \A c \in Kinds :
      pv.informer[c] = IF pv.args.resync = <<>> THEN defaultResync ELSE pv.args.resync[1]
\* C40: with spec.serviceAccount set, the cleanup of an ArgoNamespace
\* deletes nothing but the token secret <serviceAccount>-token and the Argo
\* cluster secret, and every service account and role binding stays as it
\* was; argo-attach-sa and its role binding are deleted only when
\* spec.serviceAccount is empty.
UserServiceAccountKept ==
  LET sa == pv.in.serviceAccount
      accounts(st) == {r \in st : r.kind \in {"sa", "rb"}}
  IN /\ sa # "" =>
          /\ pv.deleted \subseteq {Resource("secret", secretName(sa)), ClusterSecret}
          /\ accounts(pv.store) = accounts(pv.before)
     /\ \A r \in pv.deleted :
          r.kind \in {"sa", "rb"} => (sa = "" /\ r.name = "argo-attach-sa")

\* A cleanup that ran to its end for a supplied account: the two secrets
\* are gone, the account and its role binding are still there.
UserAccountCleanupDone ==
  /\ pv.pc = "returned"
  /\ pv.out.err = ""
  /\ pv.in.serviceAccount = "user-sa"
  /\ pv.deleted = {Resource("secret", "user-sa-token"), ClusterSecret}
  /\ {Resource("sa", "user-sa"), Resource("rb", "user-sa")} \subseteq pv.store
====
